---- MODULE Spec2Model ----
(***************************************************************************)
(* The package catalog of src/src/lib/languages.ts as a state machine.     *)
(*                                                                         *)
(* The persisted catalog (localStorage key pys_package_catalog) is the     *)
(* variable store.  Every exported create/update/remove function is one    *)
(* action: it reads the catalog with getStoredCatalog, validates and       *)
(* normalises its payload, and on success calls writeStoredCatalog, which  *)
(* stores the new catalog and then dispatches the catalog-changed event.   *)
(*                                                                         *)
(* Strings are sequences of one-character strings; an id produced by one   *)
(* of the next...Id generators is a single opaque token of such a          *)
(* sequence.  A JavaScript number is a record [tag, v] so that NaN and     *)
(* null can be told apart from the integers.                               *)
(***************************************************************************)
EXTENDS Integers, Sequences, FiniteSets, TLC

VARIABLES
  store,    \* the catalog held under PACKAGE_CATALOG_KEY
  issued,   \* per id generator, how many ids it has handed out
  quota,    \* per id generator, how many ids it may hand out in this run
  last,     \* the call whose result the caller holds, NoCall between calls
  emitted,  \* catalog-changed events dispatched by that call
  seen,     \* the catalog a subscribed handler read at the last event
  tabs,     \* per page on the same localStorage, the call it is in
  draft,    \* the payload of that call, as the page's form held it
  users,    \* the users held under USERS_KEY
  session,  \* the session held under SESSION_KEY
  ever,     \* the users that have been in the store, and the one who logged in
  languageSettings,  \* the value held under LANGUAGE_SETTINGS_KEY
  currentLanguage,   \* the value held under CURRENT_LANGUAGE_KEY
  arg,      \* the arguments of the last call outside the catalog
  out       \* what that call returned

\* the catalog and the pages on it
catalogVars == <<store, issued, quota, last, emitted, seen, tabs, draft>>

\* the users, the language settings and the calls on them
besideVars == <<users, session, ever, languageSettings, currentLanguage, arg, out>>

vars == <<store, issued, quota, last, emitted, seen, tabs, draft,
          users, session, ever, languageSettings, currentLanguage, arg, out>>

\* nothing stored, nothing called
Nothing == <<>>

\* no user, no language setting and no call
BesideIdle ==
  /\ users = Nothing
  /\ session = Nothing
  /\ ever = Nothing
  /\ languageSettings = Nothing
  /\ currentLanguage = Nothing
  /\ arg = Nothing
  /\ out = Nothing

(***************************************************************************)
(* Bounds of the model: the ids each generator may hand out, and the tabs  *)
(* that write concurrently.                                                *)
(***************************************************************************)
MaxCategories == 2
MaxFields == 1
MaxCompanies == 1
MaxEnrollments == 1
MaxWhatsApp == 2
MaxServices == 2
MaxPackages == 1
MaxTabs == 2

(***************************************************************************)
(* Strings.                                                                *)
(***************************************************************************)
Digits == <<"0", "1", "2", "3", "4", "5", "6", "7", "8", "9">>
Lower == <<"a", "b", "c", "d", "e", "f", "g", "h", "i", "j", "k", "l", "m",
           "n", "o", "p", "q", "r", "s", "t", "u", "v", "w", "x", "y", "z">>
Upper == <<"A", "B", "C", "D", "E", "F", "G", "H", "I", "J", "K", "L", "M",
           "N", "O", "P", "Q", "R", "S", "T", "U", "V", "W", "X", "Y", "Z">>

Range(s) == {s[i] : i \in 1..Len(s)}
IndexOf(s, c) == CHOOSE i \in 1..Len(s) : s[i] = c
IsDigit(c) == c \in Range(Digits)
IsLower(c) == c \in Range(Lower)
IsUpper(c) == c \in Range(Upper)
IsSpace(c) == c = " "

Map(f(_), s) == [i \in 1..Len(s) |-> f(s[i])]
Some(s, P(_)) == \E i \in 1..Len(s) : P(s[i])
Every(s, P(_)) == \A i \in 1..Len(s) : P(s[i])
Filter(s, P(_)) == SelectSeq(s, P)
Includes(s, x) == \E i \in 1..Len(s) : s[i] = x

RECURSIVE TrimStart(_)
TrimStart(s) ==
  IF s # <<>> /\ IsSpace(Head(s)) THEN TrimStart(Tail(s)) ELSE s

RECURSIVE TrimEnd(_)
TrimEnd(s) ==
  IF s # <<>> /\ IsSpace(s[Len(s)]) THEN TrimEnd(SubSeq(s, 1, Len(s) - 1)) ELSE s

\* String.prototype.trim
Trim(s) == TrimEnd(TrimStart(s))

ToLowerChar(c) == IF IsUpper(c) THEN Lower[IndexOf(Upper, c)] ELSE c
ToUpperChar(c) == IF IsLower(c) THEN Upper[IndexOf(Lower, c)] ELSE c

\* Array.from(new Set(ids)): first occurrences, in order
RECURSIVE Dedupe(_)
Dedupe(s) ==
  IF s = <<>> THEN <<>>
  ELSE LET init == Dedupe(SubSeq(s, 1, Len(s) - 1))
           x == s[Len(s)]
       IN IF Includes(init, x) THEN init ELSE Append(init, x)

(***************************************************************************)
(* JavaScript numbers.                                                     *)
(***************************************************************************)
Num(n) == [tag |-> "num", v |-> n]
\* the number n + 0.5: it is below 0 exactly when n is, and at least 0
\* exactly when n is
Half(n) == [tag |-> "half", v |-> n]
NaN == [tag |-> "nan"]
Null == [tag |-> "null"]
IsFinite(x) == x.tag \in {"num", "half"}
IsInteger(x) == x.tag = "num"
\* Math.trunc of a finite number
Trunc(x) == IF x.tag = "half" THEN Num(IF x.v >= 0 THEN x.v ELSE x.v + 1) ELSE x

(***************************************************************************)
(* Ids.  crypto.randomUUID never repeats: the n-th id of a generator is    *)
(* its prefix followed by n.                                               *)
(***************************************************************************)
Id(prefix, n) == prefix \o "-" \o ToString(n)

nextCategoryId(n) == <<Id("sport", n.sport + 1)>>
nextFieldId(n) == <<Id("field", n.field + 1)>>
nextEnrollmentId(n) == <<Id("enrollment", n.enrollment + 1)>>
nextWhatsAppAccountId(n) == <<Id("wa", n.wa + 1)>>
nextAdditionalServiceId(n) == <<Id("service", n.service + 1)>>
nextCompanyId(n) == <<Id("company", n.company + 1)>>
nextPackageId(n) == <<Id("pkg", n.pkg + 1)>>

\* a string typed with blanks around it
Padded(s) == <<" ">> \o s \o <<" ">>

(***************************************************************************)
(* What a catalog function does: the catalogs it hands to                  *)
(* writeStoredCatalog, in order, and the result it returns, { ok: true }   *)
(* with the entity (its id here) or { ok: false, error }.                  *)
(***************************************************************************)
Ok(value, id) == [ok |-> TRUE, error |-> "", writes |-> <<value>>, id |-> id]
Fail(error, id) == [ok |-> FALSE, error |-> error, writes |-> <<>>, id |-> id]

MaxOf(S) == CHOOSE n \in S : \A m \in S : m <= n
ReplaceById(s, id, item) == Map(LAMBDA x : IF x.id = id THEN item ELSE x, s)
WithoutId(s, id) == Filter(s, LAMBDA x : x.id # id)
HasId(s, id) == Some(s, LAMBDA x : x.id = id)
FindById(s, id) == s[CHOOSE i \in 1..Len(s) : s[i].id = id /\ \A j \in 1..(i - 1) : s[j].id # id]

(***************************************************************************)
(* The stored catalog and its readers.                                     *)
(***************************************************************************)
EmptyCatalog ==
  [sportCategories |-> <<>>, fields |-> <<>>, enrollments |-> <<>>,
   whatsappAccounts |-> <<>>, additionalServices |-> <<>>, companies |-> <<>>,
   packages |-> <<>>]

\* JSON.stringify writes NaN as null
jsonNumber(x) == IF x.tag = "nan" THEN Null ELSE x

(***************************************************************************)
(* Normalisation of the parts of a package and of a WhatsApp account.      *)
(* Numbers are integers, NaN or null; Math.trunc and Number() leave an     *)
(* integer as it is.                                                       *)
(***************************************************************************)
CurrentYear == 2026

Frequencies == {"daily", "weekly", "monthly", "yearly"}

normalizeWhatsAppAvailabilitySlots(value) ==
  Map(LAMBDA item :
        [id |-> IF Trim(item.id) # <<>> THEN Trim(item.id) ELSE <<"wa-slot-new">>,
         weekday |-> IF IsInteger(item.weekday) THEN item.weekday ELSE Num(1),
         startTime |-> Trim(item.startTime),
         endTime |-> Trim(item.endTime)],
      value)

normalizeWhatsAppButtonStyle(value) ==
  [label |-> IF Trim(value.label) # <<>> THEN Trim(value.label)
             ELSE <<"W", "h", "a", "t", "s", "A", "p", "p">>,
   backgroundColor |-> IF Trim(value.backgroundColor) # <<>>
                       THEN Trim(value.backgroundColor)
                       ELSE <<"#", "2", "5", "D", "3", "6", "6">>,
   textColor |-> IF Trim(value.textColor) # <<>> THEN Trim(value.textColor)
                 ELSE <<"#", "f", "f", "f", "f", "f", "f">>]

\* normalizePackageDuration without the clearing of the other variant
normalizePackageDurationKeeping(input) ==
  [durationType |-> IF input.durationType = "period" THEN "period" ELSE "single-event",
   eventDate |-> Trim(input.eventDate),
   eventTime |-> Trim(input.eventTime),
   periodStartDate |-> Trim(input.periodStartDate),
   periodEndDate |-> Trim(input.periodEndDate)]

normalizePackageDuration(input) ==
  LET durationType == IF input.durationType = "period" THEN "period" ELSE "single-event"
      eventDate == Trim(input.eventDate)
      eventTime == Trim(input.eventTime)
      periodStartDate == Trim(input.periodStartDate)
      periodEndDate == Trim(input.periodEndDate)
  IN IF durationType = "single-event"
     THEN [durationType |-> durationType, eventDate |-> eventDate,
           eventTime |-> eventTime, periodStartDate |-> <<>>, periodEndDate |-> <<>>]
     ELSE [durationType |-> durationType, eventDate |-> <<>>, eventTime |-> <<>>,
           periodStartDate |-> periodStartDate, periodEndDate |-> periodEndDate]

\* normalizePackagePayment without the clearing of the fields of the other
\* frequencies
normalizePackagePaymentKeeping(input) ==
  [recurringPaymentEnabled |-> input.recurringPaymentEnabled,
   paymentFrequency |->
     IF input.paymentFrequency \in Frequencies THEN input.paymentFrequency
     ELSE "monthly",
   priceAmount |-> IF IsFinite(input.priceAmount) THEN input.priceAmount ELSE NaN,
   monthlyDueDay |->
     IF IsInteger(input.monthlyDueDay) THEN input.monthlyDueDay ELSE Null,
   monthlyNextCycleOpenDay |->
     IF IsInteger(input.monthlyNextCycleOpenDay) THEN input.monthlyNextCycleOpenDay
     ELSE Null,
   weeklyDueWeekday |->
     IF IsInteger(input.weeklyDueWeekday) THEN input.weeklyDueWeekday ELSE Null,
   firstPaymentOnSite |-> input.firstPaymentOnSite]

normalizePackagePayment(input) ==
  LET recurringPaymentEnabled == input.recurringPaymentEnabled
      paymentFrequency ==
        IF input.paymentFrequency \in Frequencies THEN input.paymentFrequency
        ELSE "monthly"
      priceAmount == IF IsFinite(input.priceAmount) THEN input.priceAmount ELSE NaN
      monthlyDueDay == IF IsInteger(input.monthlyDueDay) THEN input.monthlyDueDay ELSE Null
      monthlyNextCycleOpenDay ==
        IF IsInteger(input.monthlyNextCycleOpenDay) THEN input.monthlyNextCycleOpenDay
        ELSE Null
      weeklyDueWeekday ==
        IF IsInteger(input.weeklyDueWeekday) THEN input.weeklyDueWeekday ELSE Null
      firstPaymentOnSite == input.firstPaymentOnSite
  IN IF ~recurringPaymentEnabled
     THEN [recurringPaymentEnabled |-> recurringPaymentEnabled,
           paymentFrequency |-> paymentFrequency, priceAmount |-> priceAmount,
           monthlyDueDay |-> Null, monthlyNextCycleOpenDay |-> Null,
           weeklyDueWeekday |-> Null, firstPaymentOnSite |-> firstPaymentOnSite]
     ELSE [recurringPaymentEnabled |-> recurringPaymentEnabled,
           paymentFrequency |-> paymentFrequency, priceAmount |-> priceAmount,
           monthlyDueDay |-> IF paymentFrequency = "monthly" THEN monthlyDueDay ELSE Null,
           monthlyNextCycleOpenDay |->
             IF paymentFrequency = "monthly" THEN monthlyNextCycleOpenDay ELSE Null,
           weeklyDueWeekday |->
             IF paymentFrequency = "weekly" THEN weeklyDueWeekday ELSE Null,
           firstPaymentOnSite |-> firstPaymentOnSite]

normalizePackageEntries(input) ==
  LET entriesCount ==
        IF IsFinite(input.entriesCount) THEN Trunc(input.entriesCount) ELSE Null
  IN IF input.recurringPaymentEnabled /\ input.paymentFrequency = "daily"
     THEN [entriesCount |-> Null]
     ELSE [entriesCount |-> entriesCount]

normalizePackageTrainers(value) ==
  Dedupe(Filter(value, LAMBDA id : id > 0))

normalizePackageWhatsAppAccountIds(value) ==
  Dedupe(Filter(Map(Trim, value), LAMBDA id : Len(id) > 0))

RECURSIVE DedupeSelections(_)
\* a Map keyed by serviceId: a key keeps the place of its first insertion and
\* the value of its last
DedupeSelections(s) ==
  IF s = <<>> THEN <<>>
  ELSE LET init == DedupeSelections(SubSeq(s, 1, Len(s) - 1))
           x == s[Len(s)]
       IN IF Some(init, LAMBDA y : y.serviceId = x.serviceId)
          THEN Map(LAMBDA y : IF y.serviceId = x.serviceId THEN x ELSE y, init)
          ELSE Append(init, x)

normalizePackageAdditionalServices(value) ==
  LET trimmed == Map(LAMBDA item : [serviceId |-> Trim(item.serviceId),
                                    isActive |-> item.isActive], value)
      rawSelections == Filter(trimmed, LAMBDA item : item.serviceId # <<>>)
  IN DedupeSelections(rawSelections)

normalizePackageGallery(value) ==
  LET items == Map(LAMBDA item :
                     [id |-> IF Trim(item.id) # <<>> THEN Trim(item.id)
                             ELSE <<"gallery-new">>,
                      src |-> Trim(item.src), caption |-> Trim(item.caption)],
                   value)
  IN Filter(items, LAMBDA item : item.src # <<>>)

normalizeSchedules(schedulesRaw) ==
  Map(LAMBDA schedule :
        [id |-> IF Trim(schedule.id) # <<>> THEN Trim(schedule.id)
                ELSE <<"group-schedule-new">>,
         weekday |-> IF IsFinite(schedule.weekday) THEN Trunc(schedule.weekday)
                     ELSE Num(1),
         time |-> Trim(schedule.time)],
      schedulesRaw)

\* the payloads carry no legacy weekday/time/ageMin/ageMax, which read as NaN
\* and ''
normalizePackageGroups(value) ==
  Map(LAMBDA item :
        LET schedules == normalizeSchedules(item.schedules)
            normalizedSchedules ==
              IF Len(schedules) > 0 THEN schedules
              ELSE <<[id |-> <<"group-schedule-new">>, weekday |-> Num(1),
                      time |-> <<>>]>>
        IN [id |-> IF Trim(item.id) # <<>> THEN Trim(item.id) ELSE <<"group-new">>,
            title |-> Trim(item.title),
            birthYearMin |-> IF IsFinite(item.birthYearMin) THEN Trunc(item.birthYearMin)
                             ELSE Num(CurrentYear - 12),
            birthYearMax |-> IF IsFinite(item.birthYearMax) THEN Trunc(item.birthYearMax)
                             ELSE Num(CurrentYear - 12),
            fieldId |-> Trim(item.fieldId),
            schedules |-> normalizedSchedules],
      value)

(***************************************************************************)
(* getStoredCatalog: the stored catalog with the defaults and the          *)
(* normalisers applied.  A stored record carries every field, so the `??`  *)
(* defaults apply only to the fields that can hold null.                   *)
(***************************************************************************)
getStoredCatalog(stored) ==
  [sportCategories |-> stored.sportCategories,
   fields |-> stored.fields,
   enrollments |-> stored.enrollments,
   whatsappAccounts |->
     Map(LAMBDA account :
           [account EXCEPT
              !.availabilitySlots = normalizeWhatsAppAvailabilitySlots(@),
              !.buttonStyle = normalizeWhatsAppButtonStyle(@)],
         stored.whatsappAccounts),
   additionalServices |->
     Map(LAMBDA service :
           [service EXCEPT
              !.type = IF @ = "variable" THEN "variable" ELSE "fixed",
              !.price = IF service.type = "variable" THEN Null
                        ELSE IF IsFinite(@) THEN @ ELSE Num(0)],
         stored.additionalServices),
   companies |-> stored.companies,
   packages |->
     Map(LAMBDA item :
           [item EXCEPT
              !.gallery = normalizePackageGallery(@),
              !.groups = normalizePackageGroups(@),
              !.enrollmentPrice = IF IsFinite(@) THEN @ ELSE Num(0),
              !.trainerIds = normalizePackageTrainers(@),
              !.whatsappAccountIds = normalizePackageWhatsAppAccountIds(@),
              !.additionalFixedServices = normalizePackageAdditionalServices(@),
              !.additionalVariableServices = normalizePackageAdditionalServices(@),
              !.entriesCount =
                IF @ # Null THEN @
                ELSE IF item.recurringPaymentEnabled /\ item.paymentFrequency = "daily"
                     THEN Null ELSE Num(1)],
         stored.packages)]

\* JSON.stringify(value): the only number of a catalog that can be NaN is a
\* package's enrollmentPrice
toJSON(value) ==
  [value EXCEPT !.packages =
     Map(LAMBDA item : [item EXCEPT !.enrollmentPrice = jsonNumber(@)], @)]

(***************************************************************************)
(* Sport categories.                                                       *)
(***************************************************************************)
RECURSIVE SpacesToHyphen(_)
\* .replace(/\s+/g, '-')
SpacesToHyphen(s) ==
  IF s = <<>> THEN <<>>
  ELSE IF IsSpace(Head(s))
       THEN <<"-">> \o SpacesToHyphen(TrimStart(s))
       ELSE <<Head(s)>> \o SpacesToHyphen(Tail(s))

RECURSIVE CollapseHyphens(_)
\* .replace(/-+/g, '-')
CollapseHyphens(s) ==
  IF Len(s) < 2 THEN s
  ELSE IF s[1] = "-" /\ s[2] = "-"
       THEN CollapseHyphens(Tail(s))
       ELSE <<Head(s)>> \o CollapseHyphens(Tail(s))

\* .replace(/^-|-$/g, '')
StripEdgeHyphen(s) ==
  LET a == IF s # <<>> /\ Head(s) = "-" THEN Tail(s) ELSE s
  IN IF a # <<>> /\ a[Len(a)] = "-" THEN SubSeq(a, 1, Len(a) - 1) ELSE a

IsSlugChar(c) == IsLower(c) \/ IsDigit(c) \/ c = "-"

\* normalizeCode with the other characters removed after the runs of hyphens
\* are collapsed
normalizeCodeFilteringLast(code) ==
  LET trimmed == Trim(code)
      lowered == Map(ToLowerChar, trimmed)
      hyphened == SpacesToHyphen(lowered)
      collapsed == CollapseHyphens(hyphened)
      kept == Filter(collapsed, IsSlugChar)
  IN StripEdgeHyphen(kept)

\* normalizeCode with the hyphens at the ends removed before the runs of
\* hyphens are collapsed
normalizeCodeStrippingFirst(code) ==
  LET trimmed == Trim(code)
      lowered == Map(ToLowerChar, trimmed)
      hyphened == SpacesToHyphen(lowered)
      kept == Filter(hyphened, IsSlugChar)
      stripped == StripEdgeHyphen(kept)
  IN CollapseHyphens(stripped)

normalizeCode(code) ==
  LET trimmed == Trim(code)
      lowered == Map(ToLowerChar, trimmed)
      hyphened == SpacesToHyphen(lowered)
      kept == Filter(hyphened, IsSlugChar)
      collapsed == CollapseHyphens(kept)
  IN StripEdgeHyphen(collapsed)

createSportCategory(st, n, payload) ==
  LET normalizedCode == normalizeCode(payload.code)
      label == Trim(payload.label)
      icon == Trim(payload.icon)
      catalog == getStoredCatalog(st)
      hasDuplicate == Some(catalog.sportCategories, LAMBDA c : c.code = normalizedCode)
      nextSortOrder ==
        MaxOf({0} \cup {catalog.sportCategories[i].sortOrder :
                          i \in 1..Len(catalog.sportCategories)}) + 1
      category == [id |-> nextCategoryId(n), kind |-> "sport", code |-> normalizedCode,
                   label |-> label, icon |-> icon, isActive |-> payload.isActive,
                   sortOrder |-> nextSortOrder]
  IN IF normalizedCode = <<>> \/ label = <<>> THEN Fail("invalid", <<>>)
     ELSE IF hasDuplicate THEN Fail("duplicateCode", <<>>)
     ELSE Ok([catalog EXCEPT !.sportCategories = Append(@, category)], category.id)

\* updateSportCategory with the updated category moved behind the others
updateSportCategoryMovingLast(st, id, payload) ==
  LET normalizedCode == normalizeCode(payload.code)
      label == Trim(payload.label)
      icon == Trim(payload.icon)
      catalog == getStoredCatalog(st)
      hasDuplicate ==
        Some(catalog.sportCategories, LAMBDA c : c.id # id /\ c.code = normalizedCode)
  IN IF normalizedCode = <<>> \/ label = <<>> THEN Fail("invalid", id)
     ELSE IF ~HasId(catalog.sportCategories, id) THEN Fail("notFound", id)
     ELSE IF hasDuplicate THEN Fail("duplicateCode", id)
     ELSE LET current == FindById(catalog.sportCategories, id)
              updatedCategory ==
                [current EXCEPT !.code = normalizedCode, !.label = label,
                                !.icon = icon, !.isActive = payload.isActive]
          IN Ok([catalog EXCEPT
                   !.sportCategories = Append(WithoutId(@, id), updatedCategory)], id)

updateSportCategory(st, id, payload) ==
  LET normalizedCode == normalizeCode(payload.code)
      label == Trim(payload.label)
      icon == Trim(payload.icon)
      catalog == getStoredCatalog(st)
      hasDuplicate ==
        Some(catalog.sportCategories, LAMBDA c : c.id # id /\ c.code = normalizedCode)
  IN IF normalizedCode = <<>> \/ label = <<>> THEN Fail("invalid", id)
     ELSE IF ~HasId(catalog.sportCategories, id) THEN Fail("notFound", id)
     ELSE IF hasDuplicate THEN Fail("duplicateCode", id)
     ELSE LET current == FindById(catalog.sportCategories, id)
              updatedCategory ==
                [current EXCEPT !.code = normalizedCode, !.label = label,
                                !.icon = icon, !.isActive = payload.isActive]
          IN Ok([catalog EXCEPT
                   !.sportCategories = ReplaceById(@, id, updatedCategory)], id)

\* removeSportCategory without the check of the fields
removeSportCategoryIgnoringFields(st, id) ==
  LET catalog == getStoredCatalog(st)
      categoryInUse == Some(catalog.packages, LAMBDA item : item.categoryId = id)
  IN IF ~HasId(catalog.sportCategories, id) THEN Fail("notFound", id)
     ELSE IF categoryInUse THEN Fail("categoryInUse", id)
     ELSE Ok([catalog EXCEPT !.sportCategories = WithoutId(@, id)], id)

removeSportCategory(st, id) ==
  LET catalog == getStoredCatalog(st)
      categoryInUse == Some(catalog.packages, LAMBDA item : item.categoryId = id)
      categoryFieldInUse == Some(catalog.fields, LAMBDA field : field.categoryId = id)
  IN IF ~HasId(catalog.sportCategories, id) THEN Fail("notFound", id)
     ELSE IF categoryInUse THEN Fail("categoryInUse", id)
     ELSE IF categoryFieldInUse THEN Fail("categoryInUse", id)
     ELSE Ok([catalog EXCEPT !.sportCategories = WithoutId(@, id)], id)

(***************************************************************************)
(* Fields.                                                                 *)
(***************************************************************************)
\* createField with the write moved above the check of the category
createFieldWritingFirst(st, n, payload) ==
  LET title == Trim(payload.title)
      description == Trim(payload.description)
      catalog == getStoredCatalog(st)
      categoryExists == HasId(catalog.sportCategories, payload.categoryId)
      field == [id |-> nextFieldId(n), title |-> title,
                categoryId |-> payload.categoryId, description |-> description]
      written == [catalog EXCEPT !.fields = Append(@, field)]
  IN IF title = <<>> \/ payload.categoryId = <<>> \/ description = <<>>
     THEN Fail("invalid", <<>>)
     ELSE IF ~categoryExists
     THEN [Fail("categoryNotFound", <<>>) EXCEPT !.writes = <<written>>]
     ELSE Ok(written, field.id)

createField(st, n, payload) ==
  LET title == Trim(payload.title)
      description == Trim(payload.description)
      catalog == getStoredCatalog(st)
      categoryExists == HasId(catalog.sportCategories, payload.categoryId)
      field == [id |-> nextFieldId(n), title |-> title,
                categoryId |-> payload.categoryId, description |-> description]
  IN IF title = <<>> \/ payload.categoryId = <<>> \/ description = <<>>
     THEN Fail("invalid", <<>>)
     ELSE IF ~categoryExists THEN Fail("categoryNotFound", <<>>)
     ELSE Ok([catalog EXCEPT !.fields = Append(@, field)], field.id)

updateField(st, id, payload) ==
  LET title == Trim(payload.title)
      description == Trim(payload.description)
      catalog == getStoredCatalog(st)
      categoryExists == HasId(catalog.sportCategories, payload.categoryId)
  IN IF title = <<>> \/ payload.categoryId = <<>> \/ description = <<>>
     THEN Fail("invalid", id)
     ELSE IF ~HasId(catalog.fields, id) THEN Fail("notFound", id)
     ELSE IF ~categoryExists THEN Fail("categoryNotFound", id)
     ELSE LET current == FindById(catalog.fields, id)
              field == [current EXCEPT !.title = title,
                                       !.categoryId = payload.categoryId,
                                       !.description = description]
          IN Ok([catalog EXCEPT !.fields = ReplaceById(@, id, field)], id)

\* removeField without the check of the package groups
removeFieldIgnoringGroups(st, id) ==
  LET catalog == getStoredCatalog(st)
  IN IF ~HasId(catalog.fields, id) THEN Fail("notFound", id)
     ELSE Ok([catalog EXCEPT !.fields = WithoutId(@, id)], id)

removeField(st, id) ==
  LET catalog == getStoredCatalog(st)
      fieldInUse ==
        Some(catalog.packages,
             LAMBDA item : Some(item.groups, LAMBDA group : group.fieldId = id))
  IN IF ~HasId(catalog.fields, id) THEN Fail("notFound", id)
     ELSE IF fieldInUse THEN Fail("fieldInUse", id)
     ELSE Ok([catalog EXCEPT !.fields = WithoutId(@, id)], id)

(***************************************************************************)
(* Enrollment types.                                                       *)
(***************************************************************************)
createEnrollment(st, n, payload) ==
  LET title == Trim(payload.title)
      description == Trim(payload.description)
      catalog == getStoredCatalog(st)
      enrollment == [id |-> nextEnrollmentId(n), title |-> title,
                     description |-> description]
  IN IF title = <<>> \/ description = <<>> THEN Fail("invalid", <<>>)
     ELSE Ok([catalog EXCEPT !.enrollments = Append(@, enrollment)], enrollment.id)

updateEnrollment(st, id, payload) ==
  LET title == Trim(payload.title)
      description == Trim(payload.description)
      catalog == getStoredCatalog(st)
  IN IF title = <<>> \/ description = <<>> THEN Fail("invalid", id)
     ELSE IF ~HasId(catalog.enrollments, id) THEN Fail("notFound", id)
     ELSE LET current == FindById(catalog.enrollments, id)
              enrollment == [current EXCEPT !.title = title,
                                            !.description = description]
          IN Ok([catalog EXCEPT !.enrollments = ReplaceById(@, id, enrollment)], id)

removeEnrollment(st, id) ==
  LET catalog == getStoredCatalog(st)
  IN IF ~HasId(catalog.enrollments, id) THEN Fail("notFound", id)
     ELSE Ok([catalog EXCEPT !.enrollments = WithoutId(@, id)], id)

(***************************************************************************)
(* WhatsApp accounts.                                                      *)
(***************************************************************************)
\* the characters of the model in code-unit order
CharOrder == <<" ", "#", "+", "-", ".">> \o Digits \o <<":", "<", ">", "@">>
             \o Upper \o Lower
CharCode(c) == IndexOf(CharOrder, c)

RECURSIVE StrLess(_, _)
\* a < b on strings
StrLess(a, b) ==
  IF b = <<>> THEN FALSE
  ELSE IF a = <<>> THEN TRUE
  ELSE IF Head(a) = Head(b) THEN StrLess(Tail(a), Tail(b))
  ELSE CharCode(Head(a)) < CharCode(Head(b))

StrLessEq(a, b) == a = b \/ StrLess(a, b)

\* /^\d{2}:\d{2}$/
IsHHMM(s) ==
  /\ Len(s) = 5
  /\ IsDigit(s[1]) /\ IsDigit(s[2]) /\ s[3] = ":" /\ IsDigit(s[4]) /\ IsDigit(s[5])

normalizePhoneNumber(value) ==
  LET trimmed == Trim(value)
      startsWithPlus == trimmed # <<>> /\ Head(trimmed) = "+"
      digitsOnly == Filter(trimmed, IsDigit)
  IN IF trimmed = <<>> THEN <<>>
     ELSE IF startsWithPlus THEN <<"+">> \o digitsOnly ELSE digitsOnly

\* /^\+?\d{7,15}$/
isValidPhoneNumber(value) ==
  LET digits == IF value # <<>> /\ Head(value) = "+" THEN Tail(value) ELSE value
  IN Every(digits, IsDigit) /\ Len(digits) >= 7 /\ Len(digits) <= 15

isValidWhatsAppAvailabilitySlot(slot) ==
  /\ IsInteger(slot.weekday)
  /\ slot.weekday.v >= 0
  /\ slot.weekday.v <= 6
  /\ IsHHMM(slot.startTime)
  /\ IsHHMM(slot.endTime)
  /\ StrLess(slot.startTime, slot.endTime)

normalizeAndValidateWhatsAppAccountPayload(payload) ==
  LET title == Trim(payload.title)
      phoneNumber == normalizePhoneNumber(payload.phoneNumber)
      avatarUrl == Trim(payload.avatarUrl)
      isActive == payload.isActive
      alwaysAvailable == payload.alwaysAvailable
      availabilitySlots == normalizeWhatsAppAvailabilitySlots(payload.availabilitySlots)
      offlineMessage == Trim(payload.offlineMessage)
      buttonStyle == normalizeWhatsAppButtonStyle(payload.buttonStyle)
      data == [title |-> title, phoneNumber |-> phoneNumber, avatarUrl |-> avatarUrl,
               isActive |-> isActive, alwaysAvailable |-> alwaysAvailable,
               availabilitySlots |-> IF alwaysAvailable THEN <<>> ELSE availabilitySlots,
               offlineMessage |-> offlineMessage, buttonStyle |-> buttonStyle]
  IN IF \/ title = <<>> \/ phoneNumber = <<>> \/ ~isValidPhoneNumber(phoneNumber)
        \/ buttonStyle.label = <<>>
     THEN [ok |-> FALSE, error |-> "invalid", data |-> data]
     ELSE IF ~alwaysAvailable /\ Len(availabilitySlots) = 0
     THEN [ok |-> FALSE, error |-> "invalid", data |-> data]
     ELSE IF ~alwaysAvailable /\ ~Every(availabilitySlots, isValidWhatsAppAvailabilitySlot)
     THEN [ok |-> FALSE, error |-> "invalid", data |-> data]
     ELSE [ok |-> TRUE, error |-> "", data |-> data]

createWhatsAppAccount(st, n, payload) ==
  LET normalized == normalizeAndValidateWhatsAppAccountPayload(payload)
      catalog == getStoredCatalog(st)
      account == [id |-> nextWhatsAppAccountId(n)] @@ normalized.data
  IN IF ~normalized.ok THEN Fail(normalized.error, <<>>)
     ELSE Ok([catalog EXCEPT !.whatsappAccounts = Append(@, account)], account.id)

updateWhatsAppAccount(st, id, payload) ==
  LET normalized == normalizeAndValidateWhatsAppAccountPayload(payload)
      catalog == getStoredCatalog(st)
  IN IF ~normalized.ok THEN Fail(normalized.error, id)
     ELSE IF ~HasId(catalog.whatsappAccounts, id) THEN Fail("notFound", id)
     ELSE LET current == FindById(catalog.whatsappAccounts, id)
              account == normalized.data @@ current
          IN Ok([catalog EXCEPT !.whatsappAccounts = ReplaceById(@, id, account)], id)

\* removeWhatsAppAccount without the pass over the packages
removeWhatsAppAccountOnly(st, id) ==
  LET catalog == getStoredCatalog(st)
  IN IF ~HasId(catalog.whatsappAccounts, id) THEN Fail("notFound", id)
     ELSE Ok([catalog EXCEPT !.whatsappAccounts = WithoutId(@, id)], id)

removeWhatsAppAccount(st, id) ==
  LET catalog == getStoredCatalog(st)
  IN IF ~HasId(catalog.whatsappAccounts, id) THEN Fail("notFound", id)
     ELSE Ok([catalog EXCEPT
                !.whatsappAccounts = WithoutId(@, id),
                !.packages =
                  Map(LAMBDA item :
                        [item EXCEPT !.whatsappAccountIds =
                           Filter(@, LAMBDA accountId : accountId # id)],
                      @)],
             id)

(***************************************************************************)
(* Additional services.                                                    *)
(***************************************************************************)
normalizeAndValidateAdditionalServicePayload(payload) ==
  LET title == Trim(payload.title)
      description == Trim(payload.description)
      type == IF payload.type = "variable" THEN "variable" ELSE "fixed"
      parsedPrice == IF IsFinite(payload.price) THEN payload.price ELSE NaN
      data == [title |-> title, description |-> description, type |-> type,
               price |-> IF type = "fixed" THEN parsedPrice ELSE Null,
               isActive |-> payload.isActive]
  IN IF title = <<>> \/ description = <<>>
     THEN [ok |-> FALSE, error |-> "invalid", data |-> data]
     ELSE IF type = "fixed" /\ (~IsFinite(parsedPrice) \/ parsedPrice.v < 0)
     THEN [ok |-> FALSE, error |-> "invalid", data |-> data]
     ELSE [ok |-> TRUE, error |-> "", data |-> data]

createAdditionalService(st, n, payload) ==
  LET normalized == normalizeAndValidateAdditionalServicePayload(payload)
      catalog == getStoredCatalog(st)
      service == [id |-> nextAdditionalServiceId(n)] @@ normalized.data
  IN IF ~normalized.ok THEN Fail(normalized.error, <<>>)
     ELSE Ok([catalog EXCEPT !.additionalServices = Append(@, service)], service.id)

updateAdditionalService(st, id, payload) ==
  LET normalized == normalizeAndValidateAdditionalServicePayload(payload)
      catalog == getStoredCatalog(st)
  IN IF ~normalized.ok THEN Fail(normalized.error, id)
     ELSE IF ~HasId(catalog.additionalServices, id) THEN Fail("notFound", id)
     ELSE LET current == FindById(catalog.additionalServices, id)
              service == normalized.data @@ current
          IN Ok([catalog EXCEPT !.additionalServices = ReplaceById(@, id, service)], id)

removeAdditionalService(st, id) ==
  LET catalog == getStoredCatalog(st)
  IN IF ~HasId(catalog.additionalServices, id) THEN Fail("notFound", id)
     ELSE Ok([catalog EXCEPT !.additionalServices = WithoutId(@, id)], id)

(***************************************************************************)
(* Companies.                                                              *)
(***************************************************************************)
IBAN_LENGTHS ==
  {<<"AD", 24>>, <<"AE", 23>>, <<"AL", 28>>, <<"AT", 20>>, <<"AZ", 28>>, <<"BA", 20>>,
   <<"BE", 16>>, <<"BG", 22>>, <<"BH", 22>>, <<"BR", 29>>, <<"BY", 28>>, <<"CH", 21>>,
   <<"CR", 22>>, <<"CY", 28>>, <<"CZ", 24>>, <<"DE", 22>>, <<"DK", 18>>, <<"DO", 28>>,
   <<"EE", 20>>, <<"EG", 29>>, <<"ES", 24>>, <<"FI", 18>>, <<"FO", 18>>, <<"FR", 27>>,
   <<"GB", 22>>, <<"GE", 22>>, <<"GI", 23>>, <<"GL", 18>>, <<"GR", 27>>, <<"GT", 28>>,
   <<"HR", 21>>, <<"HU", 28>>, <<"IE", 22>>, <<"IL", 23>>, <<"IQ", 23>>, <<"IS", 26>>,
   <<"IT", 27>>, <<"JO", 30>>, <<"KW", 30>>, <<"KZ", 20>>, <<"LB", 28>>, <<"LC", 32>>,
   <<"LI", 21>>, <<"LT", 20>>, <<"LU", 20>>, <<"LV", 21>>, <<"MC", 27>>, <<"MD", 24>>,
   <<"ME", 22>>, <<"MK", 19>>, <<"MR", 27>>, <<"MT", 31>>, <<"MU", 30>>, <<"NL", 18>>,
   <<"NO", 15>>, <<"PK", 24>>, <<"PL", 28>>, <<"PS", 29>>, <<"PT", 25>>, <<"QA", 29>>,
   <<"RO", 24>>, <<"RS", 22>>, <<"SA", 24>>, <<"SC", 31>>, <<"SD", 18>>, <<"SE", 24>>,
   <<"SI", 19>>, <<"SK", 24>>, <<"SM", 27>>, <<"ST", 25>>, <<"SV", 28>>, <<"TL", 23>>,
   <<"TN", 24>>, <<"TR", 26>>, <<"UA", 29>>, <<"VA", 22>>, <<"VG", 24>>, <<"XK", 20>>}

IbanCountries == {e[1] : e \in IBAN_LENGTHS}
IbanLength(country) == (CHOOSE e \in IBAN_LENGTHS : e[1] = country)[2]

normalizeIban(iban) ==
  Map(ToUpperChar, Filter(iban, LAMBDA c : ~IsSpace(c)))

\* a character of the rearranged IBAN as decimal digits: a digit is itself, a
\* letter is its char code minus 55 (A = 10 ... Z = 35)
ExpandChar(c) ==
  IF IsDigit(c) THEN <<IndexOf(Digits, c) - 1>>
  ELSE LET n == IndexOf(Upper, c) + 9 IN <<n \div 10, n % 10>>

RECURSIVE Mod97(_, _)
Mod97(digits, remainder) ==
  IF digits = <<>> THEN remainder
  ELSE Mod97(Tail(digits), (remainder * 10 + Head(digits)) % 97)

RECURSIVE IbanRemainder(_, _)
IbanRemainder(chars, remainder) ==
  IF chars = <<>> THEN remainder
  ELSE IbanRemainder(Tail(chars), Mod97(ExpandChar(Head(chars)), remainder))

\* isValidIban with the remainder taken of the IBAN as written, its first four
\* characters not moved to the end
isValidIbanAsWritten(value) ==
  LET iban == normalizeIban(value)
      shaped == /\ Len(iban) >= 3
                /\ IsUpper(iban[1]) /\ IsUpper(iban[2])
                /\ \A i \in 3..Len(iban) : IsDigit(iban[i]) \/ IsUpper(iban[i])
      country == iban[1] \o iban[2]
  IN IF ~shaped THEN FALSE
     ELSE IF country \notin IbanCountries \/ Len(iban) # IbanLength(country)
     THEN FALSE
     ELSE IbanRemainder(iban, 0) = 1

isValidIban(value) ==
  LET iban == normalizeIban(value)
      shaped == /\ Len(iban) >= 3
                /\ IsUpper(iban[1]) /\ IsUpper(iban[2])
                /\ \A i \in 3..Len(iban) : IsDigit(iban[i]) \/ IsUpper(iban[i])
      country == iban[1] \o iban[2]
      rearranged == SubSeq(iban, 5, Len(iban)) \o SubSeq(iban, 1, 4)
  IN IF ~shaped THEN FALSE
     ELSE IF country \notin IbanCountries \/ Len(iban) # IbanLength(country)
     THEN FALSE
     ELSE IbanRemainder(rearranged, 0) = 1

RECURSIVE StripTags(_)
\* .replace(/<[^>]*>/g, ' ')
StripTags(s) ==
  IF s = <<>> THEN <<>>
  ELSE IF Head(s) = "<" /\ Includes(Tail(s), ">")
       THEN LET close == CHOOSE i \in 2..Len(s) :
                           s[i] = ">" /\ \A j \in 2..(i - 1) : s[j] # ">"
            IN <<" ">> \o StripTags(SubSeq(s, close + 1, Len(s)))
       ELSE <<Head(s)>> \o StripTags(Tail(s))

RECURSIVE CollapseSpaces(_)
\* .replace(/\s+/g, ' ')
CollapseSpaces(s) ==
  IF s = <<>> THEN <<>>
  ELSE IF IsSpace(Head(s))
       THEN <<" ">> \o CollapseSpaces(TrimStart(s))
       ELSE <<Head(s)>> \o CollapseSpaces(Tail(s))

stripHtml(value) == Trim(CollapseSpaces(StripTags(value)))

\* /^[^\s@]+@[^\s@]+\.[^\s@]+$/ on the trimmed value
isValidEmail(value) ==
  LET v == Trim(value)
      ats == {i \in 1..Len(v) : v[i] = "@"}
  IN /\ Every(v, LAMBDA c : ~IsSpace(c))
     /\ Cardinality(ats) = 1
     /\ \E i \in ats :
          /\ i >= 2
          /\ \E j \in (i + 2)..(Len(v) - 1) : v[j] = "."

normalizeAndValidateCompanyPayload(payload) ==
  LET normalized ==
        [title |-> Trim(payload.title),
         headquartersAddress |-> Trim(payload.headquartersAddress),
         googlePlaceId |-> Trim(payload.googlePlaceId),
         vatNumber |-> Trim(payload.vatNumber),
         iban |-> normalizeIban(payload.iban),
         paypalEnabled |-> payload.paypalEnabled,
         paypalClientId |-> Trim(payload.paypalClientId),
         email |-> Trim(payload.email),
         consentMinors |-> payload.consentMinors,
         consentAdults |-> payload.consentAdults,
         consentInformationNotice |-> payload.consentInformationNotice,
         consentDataProcessing |-> payload.consentDataProcessing]
  IN IF \/ normalized.title = <<>>
        \/ normalized.headquartersAddress = <<>>
        \/ normalized.googlePlaceId = <<>>
        \/ normalized.vatNumber = <<>>
        \/ normalized.iban = <<>>
        \/ normalized.email = <<>>
        \/ stripHtml(normalized.consentMinors) = <<>>
        \/ stripHtml(normalized.consentAdults) = <<>>
        \/ stripHtml(normalized.consentInformationNotice) = <<>>
        \/ stripHtml(normalized.consentDataProcessing) = <<>>
     THEN [ok |-> FALSE, error |-> "invalid", data |-> normalized]
     ELSE IF ~isValidIban(normalized.iban)
     THEN [ok |-> FALSE, error |-> "invalidIban", data |-> normalized]
     ELSE IF ~isValidEmail(normalized.email)
     THEN [ok |-> FALSE, error |-> "invalidEmail", data |-> normalized]
     ELSE IF normalized.paypalEnabled /\ normalized.paypalClientId = <<>>
     THEN [ok |-> FALSE, error |-> "paypalClientIdRequired", data |-> normalized]
     ELSE [ok |-> TRUE, error |-> "", data |-> normalized]

buildCompanyFromPayload(input, id) ==
  [id |-> id,
   title |-> input.title,
   headquartersAddress |-> input.headquartersAddress,
   googlePlaceId |-> input.googlePlaceId,
   vatNumber |-> input.vatNumber,
   iban |-> input.iban,
   paypalEnabled |-> input.paypalEnabled,
   paypalClientId |-> IF input.paypalEnabled THEN input.paypalClientId ELSE <<>>,
   email |-> input.email,
   consentMinors |-> input.consentMinors,
   consentAdults |-> input.consentAdults,
   consentInformationNotice |-> input.consentInformationNotice,
   consentDataProcessing |-> input.consentDataProcessing]

createCompany(st, n, payload) ==
  LET validation == normalizeAndValidateCompanyPayload(payload)
      catalog == getStoredCatalog(st)
      item == buildCompanyFromPayload(validation.data, nextCompanyId(n))
  IN IF ~validation.ok THEN Fail(validation.error, <<>>)
     ELSE Ok([catalog EXCEPT !.companies = Append(@, item)], item.id)

updateCompany(st, id, payload) ==
  LET validation == normalizeAndValidateCompanyPayload(payload)
      catalog == getStoredCatalog(st)
  IN IF ~validation.ok THEN Fail(validation.error, id)
     ELSE IF ~HasId(catalog.companies, id) THEN Fail("notFound", id)
     ELSE LET current == FindById(catalog.companies, id)
              item == buildCompanyFromPayload(validation.data, current.id)
          IN Ok([catalog EXCEPT !.companies = ReplaceById(@, id, item)], id)

\* removeCompany without the check of the packages
removeCompanyIgnoringPackages(st, id) ==
  LET catalog == getStoredCatalog(st)
  IN IF ~HasId(catalog.companies, id) THEN Fail("notFound", id)
     ELSE Ok([catalog EXCEPT !.companies = WithoutId(@, id)], id)

removeCompany(st, id) ==
  LET catalog == getStoredCatalog(st)
      companyInUse == Some(catalog.packages, LAMBDA item : item.companyId = id)
  IN IF ~HasId(catalog.companies, id) THEN Fail("notFound", id)
     ELSE IF companyInUse THEN Fail("companyInUse", id)
     ELSE Ok([catalog EXCEPT !.companies = WithoutId(@, id)], id)

(***************************************************************************)
(* Packages.                                                               *)
(***************************************************************************)
isValidAgeRange(ageMin, ageMax) ==
  /\ IsInteger(ageMin) /\ IsInteger(ageMax)
  /\ ageMin.v >= 0 /\ ageMax.v >= ageMin.v /\ ageMax.v <= 120

isValidPackageDuration(input) ==
  LET normalized == normalizePackageDuration(input)
  IN IF normalized.durationType = "single-event"
     THEN normalized.eventDate # <<>> /\ normalized.eventTime # <<>>
     ELSE /\ normalized.periodStartDate # <<>>
          /\ normalized.periodEndDate # <<>>
          /\ StrLessEq(normalized.periodStartDate, normalized.periodEndDate)

\* isValidPackagePayment without the check of monthlyNextCycleOpenDay
isValidPackagePaymentDueDayOnly(input) ==
  LET payment == normalizePackagePayment(input)
  IN IF ~IsFinite(payment.priceAmount) \/ payment.priceAmount.v < 0 THEN FALSE
     ELSE IF ~payment.recurringPaymentEnabled THEN TRUE
     ELSE IF payment.paymentFrequency = "monthly"
     THEN /\ payment.monthlyDueDay # Null
          /\ payment.monthlyDueDay.v >= 1
          /\ payment.monthlyDueDay.v <= 31
     ELSE IF payment.paymentFrequency = "weekly"
     THEN /\ payment.weeklyDueWeekday # Null
          /\ payment.weeklyDueWeekday.v >= 0
          /\ payment.weeklyDueWeekday.v <= 6
     ELSE TRUE

isValidPackagePayment(input) ==
  LET payment == normalizePackagePayment(input)
  IN IF ~IsFinite(payment.priceAmount) \/ payment.priceAmount.v < 0 THEN FALSE
     ELSE IF ~payment.recurringPaymentEnabled THEN TRUE
     ELSE IF payment.paymentFrequency = "monthly"
     THEN /\ payment.monthlyDueDay # Null
          /\ payment.monthlyDueDay.v >= 1
          /\ payment.monthlyDueDay.v <= 31
          /\ payment.monthlyNextCycleOpenDay # Null
          /\ payment.monthlyNextCycleOpenDay.v >= 1
          /\ payment.monthlyNextCycleOpenDay.v <= 31
     ELSE IF payment.paymentFrequency = "weekly"
     THEN /\ payment.weeklyDueWeekday # Null
          /\ payment.weeklyDueWeekday.v >= 0
          /\ payment.weeklyDueWeekday.v <= 6
     ELSE TRUE

\* isValidPackageEntries without the limit of the weekly frequency
isValidPackageEntriesNoWeeklyLimit(input) ==
  LET normalized == normalizePackageEntries(input)
  IN IF normalized.entriesCount = Null
     THEN input.recurringPaymentEnabled /\ input.paymentFrequency = "daily"
     ELSE IF ~IsInteger(normalized.entriesCount) \/ normalized.entriesCount.v <= 0
     THEN FALSE
     ELSE IF ~input.recurringPaymentEnabled THEN TRUE
     ELSE IF input.paymentFrequency = "weekly" THEN TRUE
     ELSE IF input.paymentFrequency = "monthly" THEN normalized.entriesCount.v <= 31
     ELSE IF input.paymentFrequency = "yearly" THEN normalized.entriesCount.v <= 365
     ELSE FALSE

isValidPackageEntries(input) ==
  LET normalized == normalizePackageEntries(input)
  IN IF normalized.entriesCount = Null
     THEN input.recurringPaymentEnabled /\ input.paymentFrequency = "daily"
     ELSE IF ~IsInteger(normalized.entriesCount) \/ normalized.entriesCount.v <= 0
     THEN FALSE
     ELSE IF ~input.recurringPaymentEnabled THEN TRUE
     ELSE IF input.paymentFrequency = "weekly" THEN normalized.entriesCount.v <= 7
     ELSE IF input.paymentFrequency = "monthly" THEN normalized.entriesCount.v <= 31
     ELSE IF input.paymentFrequency = "yearly" THEN normalized.entriesCount.v <= 365
     ELSE FALSE

isValidPackageEnrollment(input, enrollments) ==
  IF Trim(input.enrollmentId) = <<>> THEN Len(enrollments) = 0
  ELSE LET exists == Some(enrollments, LAMBDA item : item.id = input.enrollmentId)
       IN exists /\ IsFinite(input.enrollmentPrice) /\ input.enrollmentPrice.v >= 0

\* isValidPackageAdditionalServices without the check of the variable list
isValidPackageAdditionalServicesFixedOnly(input, additionalServices) ==
  LET fixedSelections == normalizePackageAdditionalServices(input.additionalFixedServices)
      variableSelections ==
        normalizePackageAdditionalServices(input.additionalVariableServices)
      fixedIds == Map(LAMBDA selection : selection.serviceId, fixedSelections)
      variableIds == Map(LAMBDA selection : selection.serviceId, variableSelections)
      HasType(id, type) ==
        /\ HasId(additionalServices, id)
        /\ FindById(additionalServices, id).type = type
  IN IF Some(fixedIds, LAMBDA id : Includes(variableIds, id)) THEN FALSE
     ELSE Every(fixedIds, LAMBDA id : HasType(id, "fixed"))

isValidPackageAdditionalServices(input, additionalServices) ==
  LET fixedSelections == normalizePackageAdditionalServices(input.additionalFixedServices)
      variableSelections ==
        normalizePackageAdditionalServices(input.additionalVariableServices)
      fixedIds == Map(LAMBDA selection : selection.serviceId, fixedSelections)
      variableIds == Map(LAMBDA selection : selection.serviceId, variableSelections)
      HasType(id, type) ==
        /\ HasId(additionalServices, id)
        /\ FindById(additionalServices, id).type = type
  IN IF Some(fixedIds, LAMBDA id : Includes(variableIds, id)) THEN FALSE
     ELSE IF ~Every(fixedIds, LAMBDA id : HasType(id, "fixed")) THEN FALSE
     ELSE Every(variableIds, LAMBDA id : HasType(id, "variable"))

isValidPackageWhatsAppAccounts(input, whatsappAccounts) ==
  LET ids == normalizePackageWhatsAppAccountIds(input.whatsappAccountIds)
  IN Every(ids, LAMBDA id : HasId(whatsappAccounts, id))

\* isValidPackageGroups without the comparison of the field's category
isValidPackageGroupsAnyCategory(groups, fields, packageCategoryId) ==
  Every(groups,
        LAMBDA group :
          /\ Trim(group.title) # <<>>
          /\ group.fieldId # <<>>
          /\ HasId(fields, group.fieldId)
          /\ IsInteger(group.birthYearMin)
          /\ IsInteger(group.birthYearMax)
          /\ group.birthYearMin.v >= 1900
          /\ group.birthYearMax.v >= group.birthYearMin.v
          /\ group.birthYearMax.v <= 2100
          /\ Len(group.schedules) > 0
          /\ Every(group.schedules,
                   LAMBDA schedule :
                     /\ IsInteger(schedule.weekday)
                     /\ schedule.weekday.v >= 0
                     /\ schedule.weekday.v <= 6
                     /\ IsHHMM(schedule.time)))

isValidPackageGroups(groups, fields, packageCategoryId) ==
  Every(groups,
        LAMBDA group :
          /\ Trim(group.title) # <<>>
          /\ group.fieldId # <<>>
          /\ HasId(fields, group.fieldId)
          /\ FindById(fields, group.fieldId).categoryId = packageCategoryId
          /\ IsInteger(group.birthYearMin)
          /\ IsInteger(group.birthYearMax)
          /\ group.birthYearMin.v >= 1900
          /\ group.birthYearMax.v >= group.birthYearMin.v
          /\ group.birthYearMax.v <= 2100
          /\ Len(group.schedules) > 0
          /\ Every(group.schedules,
                   LAMBDA schedule :
                     /\ IsInteger(schedule.weekday)
                     /\ schedule.weekday.v >= 0
                     /\ schedule.weekday.v <= 6
                     /\ IsHHMM(schedule.time)))

preparePackagePayload(payload) ==
  [name |-> Trim(payload.name),
   description |-> Trim(payload.description),
   featuredImage |-> Trim(payload.featuredImage),
   duration |-> normalizePackageDuration(payload),
   gallery |-> normalizePackageGallery(payload.gallery),
   groups |-> normalizePackageGroups(payload.groups),
   payment |-> normalizePackagePayment(payload),
   packageEntries |-> normalizePackageEntries(payload),
   trainerIds |-> normalizePackageTrainers(payload.trainerIds),
   whatsappAccountIds |-> normalizePackageWhatsAppAccountIds(payload.whatsappAccountIds),
   additionalFixedServices |->
     normalizePackageAdditionalServices(payload.additionalFixedServices),
   additionalVariableServices |->
     normalizePackageAdditionalServices(payload.additionalVariableServices)]

\* validatePreparedPackagePayload with the category looked up before the
\* payment is checked
validatePreparedPackagePayloadCategoryFirst(payload, prepared, catalog) ==
  IF \/ prepared.name = <<>> \/ prepared.description = <<>>
     \/ payload.categoryId = <<>> \/ payload.companyId = <<>>
  THEN "invalid"
  ELSE IF ~isValidAgeRange(payload.ageMin, payload.ageMax) THEN "invalidAgeRange"
  ELSE IF ~isValidPackageDuration(payload) THEN "invalidDuration"
  ELSE IF ~HasId(catalog.sportCategories, payload.categoryId) THEN "categoryNotFound"
  ELSE IF ~isValidPackagePayment(payload) THEN "invalidPayment"
  ELSE IF ~isValidPackageEntries(payload) THEN "invalidPayment"
  ELSE IF ~HasId(catalog.companies, payload.companyId) THEN "companyNotFound"
  ELSE IF ~isValidPackageEnrollment(payload, catalog.enrollments) THEN "invalidEnrollment"
  ELSE IF ~isValidPackageWhatsAppAccounts(prepared, catalog.whatsappAccounts)
  THEN "invalidWhatsAppAccounts"
  ELSE IF ~isValidPackageAdditionalServices(prepared, catalog.additionalServices)
  THEN "invalidAdditionalServices"
  ELSE IF ~isValidPackageGroups(prepared.groups, catalog.fields, payload.categoryId)
  THEN "invalidGroups"
  ELSE ""

\* the error code, or "" for null
validatePreparedPackagePayload(payload, prepared, catalog) ==
  IF \/ prepared.name = <<>> \/ prepared.description = <<>>
     \/ payload.categoryId = <<>> \/ payload.companyId = <<>>
  THEN "invalid"
  ELSE IF ~isValidAgeRange(payload.ageMin, payload.ageMax) THEN "invalidAgeRange"
  ELSE IF ~isValidPackageDuration(payload) THEN "invalidDuration"
  ELSE IF ~isValidPackagePayment(payload) THEN "invalidPayment"
  ELSE IF ~isValidPackageEntries(payload) THEN "invalidPayment"
  ELSE IF ~HasId(catalog.sportCategories, payload.categoryId) THEN "categoryNotFound"
  ELSE IF ~HasId(catalog.companies, payload.companyId) THEN "companyNotFound"
  ELSE IF ~isValidPackageEnrollment(payload, catalog.enrollments) THEN "invalidEnrollment"
  ELSE IF ~isValidPackageWhatsAppAccounts(prepared, catalog.whatsappAccounts)
  THEN "invalidWhatsAppAccounts"
  ELSE IF ~isValidPackageAdditionalServices(prepared, catalog.additionalServices)
  THEN "invalidAdditionalServices"
  ELSE IF ~isValidPackageGroups(prepared.groups, catalog.fields, payload.categoryId)
  THEN "invalidGroups"
  ELSE ""

\* buildSportPackageFromPayload with { status: 'draft' } in place of current
buildSportPackageFromPayloadAsDraft(id, payload, prepared, status) ==
  [status |-> "draft",
   id |-> id,
   name |-> prepared.name,
   description |-> prepared.description,
   enrollmentId |-> Trim(payload.enrollmentId),
   enrollmentPrice |-> payload.enrollmentPrice,
   trainerIds |-> prepared.trainerIds,
   whatsappAccountIds |-> prepared.whatsappAccountIds,
   additionalFixedServices |-> prepared.additionalFixedServices,
   additionalVariableServices |-> prepared.additionalVariableServices,
   ageMin |-> payload.ageMin,
   ageMax |-> payload.ageMax,
   durationType |-> prepared.duration.durationType,
   eventDate |-> prepared.duration.eventDate,
   eventTime |-> prepared.duration.eventTime,
   periodStartDate |-> prepared.duration.periodStartDate,
   periodEndDate |-> prepared.duration.periodEndDate,
   gallery |-> prepared.gallery,
   groups |-> prepared.groups,
   recurringPaymentEnabled |-> prepared.payment.recurringPaymentEnabled,
   paymentFrequency |-> prepared.payment.paymentFrequency,
   priceAmount |-> prepared.payment.priceAmount,
   monthlyDueDay |-> prepared.payment.monthlyDueDay,
   monthlyNextCycleOpenDay |-> prepared.payment.monthlyNextCycleOpenDay,
   weeklyDueWeekday |-> prepared.payment.weeklyDueWeekday,
   firstPaymentOnSite |-> prepared.payment.firstPaymentOnSite,
   trainingAddress |-> Trim(payload.trainingAddress),
   entriesCount |-> prepared.packageEntries.entriesCount,
   userSelectableSchedule |-> payload.userSelectableSchedule,
   featuredImage |-> prepared.featuredImage,
   isFeatured |-> payload.isFeatured,
   isDescriptive |-> payload.isDescriptive,
   categoryId |-> payload.categoryId,
   companyId |-> payload.companyId,
   audience |-> payload.audience]

\* { ...(current ?? { status: 'draft' }), id, ... }: every field but status is
\* set from the payload
buildSportPackageFromPayload(id, payload, prepared, status) ==
  [status |-> status,
   id |-> id,
   name |-> prepared.name,
   description |-> prepared.description,
   enrollmentId |-> Trim(payload.enrollmentId),
   enrollmentPrice |-> payload.enrollmentPrice,
   trainerIds |-> prepared.trainerIds,
   whatsappAccountIds |-> prepared.whatsappAccountIds,
   additionalFixedServices |-> prepared.additionalFixedServices,
   additionalVariableServices |-> prepared.additionalVariableServices,
   ageMin |-> payload.ageMin,
   ageMax |-> payload.ageMax,
   durationType |-> prepared.duration.durationType,
   eventDate |-> prepared.duration.eventDate,
   eventTime |-> prepared.duration.eventTime,
   periodStartDate |-> prepared.duration.periodStartDate,
   periodEndDate |-> prepared.duration.periodEndDate,
   gallery |-> prepared.gallery,
   groups |-> prepared.groups,
   recurringPaymentEnabled |-> prepared.payment.recurringPaymentEnabled,
   paymentFrequency |-> prepared.payment.paymentFrequency,
   priceAmount |-> prepared.payment.priceAmount,
   monthlyDueDay |-> prepared.payment.monthlyDueDay,
   monthlyNextCycleOpenDay |-> prepared.payment.monthlyNextCycleOpenDay,
   weeklyDueWeekday |-> prepared.payment.weeklyDueWeekday,
   firstPaymentOnSite |-> prepared.payment.firstPaymentOnSite,
   trainingAddress |-> Trim(payload.trainingAddress),
   entriesCount |-> prepared.packageEntries.entriesCount,
   userSelectableSchedule |-> payload.userSelectableSchedule,
   featuredImage |-> prepared.featuredImage,
   isFeatured |-> payload.isFeatured,
   isDescriptive |-> payload.isDescriptive,
   categoryId |-> payload.categoryId,
   companyId |-> payload.companyId,
   audience |-> payload.audience]

createSportPackage(st, n, payload) ==
  LET prepared == preparePackagePayload(payload)
      catalog == getStoredCatalog(st)
      validationError == validatePreparedPackagePayload(payload, prepared, catalog)
      item == buildSportPackageFromPayload(nextPackageId(n), payload, prepared, "draft")
  IN IF validationError # "" THEN Fail(validationError, <<>>)
     ELSE Ok([catalog EXCEPT !.packages = Append(@, item)], item.id)

updateSportPackage(st, id, payload) ==
  LET prepared == preparePackagePayload(payload)
      catalog == getStoredCatalog(st)
      validationError == validatePreparedPackagePayload(payload, prepared, catalog)
  IN IF validationError # "" THEN Fail(validationError, id)
     ELSE IF ~HasId(catalog.packages, id) THEN Fail("notFound", id)
     ELSE LET current == FindById(catalog.packages, id)
              item == buildSportPackageFromPayload(id, payload, prepared, current.status)
          IN Ok([catalog EXCEPT !.packages = ReplaceById(@, id, item)], id)

removeSportPackage(st, id) ==
  LET catalog == getStoredCatalog(st)
  IN IF ~HasId(catalog.packages, id) THEN Fail("notFound", id)
     ELSE Ok([catalog EXCEPT !.packages = WithoutId(@, id)], id)

(***************************************************************************)
(* Writing the catalog.  The page state is the stored catalog, the events  *)
(* of the running call and what the subscribed handler last read.          *)
(***************************************************************************)
\* localStorage.setItem(PACKAGE_CATALOG_KEY, JSON.stringify(value))
setItem(s, value) == [s EXCEPT !.store = toJSON(value)]

\* the handler subscribed to the event runs inside dispatchEvent and reads
\* the catalog again
handleCatalogChange(s) == [s EXCEPT !.seen = getStoredCatalog(s.store)]

emitPackageCatalogChanged(s) == handleCatalogChange([s EXCEPT !.emitted = @ + 1])

\* writeStoredCatalog with the event dispatched before the item is set
writeStoredCatalogEventFirst(s, value) == setItem(emitPackageCatalogChanged(s), value)
writeStoredCatalog(s, value) == emitPackageCatalogChanged(setItem(s, value))

RECURSIVE WriteAll(_, _)
WriteAll(s, writes) ==
  IF writes = <<>> THEN s
  ELSE WriteAll(writeStoredCatalog(s, Head(writes)), Tail(writes))

(***************************************************************************)
(* The payloads the calls are made with.                                   *)
(***************************************************************************)
Text == <<" ", "t", " ">>
Blank == <<" ">>
TitleAndDescription == {<<Text, Text>>, <<Blank, Text>>, <<Text, <<>>>>}

Known(prefix, count) == {<<Id(prefix, i)>> : i \in 1..count}
\* the ids a call can name: those handed out so far and one never handed out
IdArgs(prefix, count) == Known(prefix, count) \cup {<<Id(prefix, 0)>>}

CategoryChoices == Known("sport", issued.sport) \cup {<<>>}

CategoryPayloads ==
  [code : {<<"a">>, <<" ", "-", "A", " ", " ", "!", "-", "1", "-">>, <<"-">>},
   label : {Text, Blank}, icon : {<<>>}, isActive : {TRUE}]

FieldPayloads ==
  {[title |-> td[1], description |-> td[2], categoryId |-> c] :
     td \in TitleAndDescription, c \in CategoryChoices}

EnrollmentPayloads ==
  {[title |-> td[1], description |-> td[2]] : td \in TitleAndDescription}

Phone == <<"+", "3", "9", " ", "3", "3", "3", "1", "2", "3", "4">>
Slot(start, end) ==
  [id |-> <<"s">>, weekday |-> Num(1),
   startTime |-> <<"0", start, ":", "0", "0">>, endTime |-> <<"0", end, ":", "0", "0">>]

WhatsAppBase ==
  [title |-> Text, phoneNumber |-> Phone, avatarUrl |-> <<>>, isActive |-> TRUE,
   alwaysAvailable |-> TRUE, availabilitySlots |-> <<>>, offlineMessage |-> <<>>,
   buttonStyle |-> [label |-> <<>>, backgroundColor |-> <<>>, textColor |-> <<>>]]

WhatsAppPayloads ==
  {WhatsAppBase,
   [WhatsAppBase EXCEPT !.title = Blank],
   [WhatsAppBase EXCEPT !.phoneNumber = <<"1", "2", "3">>],
   [WhatsAppBase EXCEPT !.alwaysAvailable = FALSE],
   [WhatsAppBase EXCEPT !.alwaysAvailable = FALSE,
                        !.availabilitySlots = <<Slot("8", "9")>>],
   [WhatsAppBase EXCEPT !.alwaysAvailable = FALSE,
                        !.availabilitySlots = <<Slot("9", "8")>>]}

ServicePayloads ==
  {[title |-> Text, description |-> Text, type |-> "fixed", price |-> Num(10),
    isActive |-> TRUE],
   [title |-> Text, description |-> Text, type |-> "variable", price |-> Num(10),
    isActive |-> TRUE],
   [title |-> Text, description |-> Text, type |-> "fixed", price |-> NaN,
    isActive |-> TRUE],
   [title |-> Blank, description |-> Text, type |-> "variable", price |-> Null,
    isActive |-> TRUE]}

Html(text) == <<"<", "p", ">">> \o text \o <<"<", "/", "p", ">">>
SampleIban == <<"n", "o", "9", "3", " ", "8", "6", "0", "1", " ",
                "1", "1", "1", "7", " ", "9", "4", "7">>

CompanyBase ==
  [title |-> Text, headquartersAddress |-> Text, googlePlaceId |-> Text,
   vatNumber |-> Text, iban |-> SampleIban, paypalEnabled |-> FALSE,
   paypalClientId |-> <<>>, email |-> <<"a", "@", "b", ".", "c">>,
   consentMinors |-> Html(<<"t">>), consentAdults |-> Html(<<"t">>),
   consentInformationNotice |-> Html(<<"t">>),
   consentDataProcessing |-> Html(<<"t">>)]

CompanyPayloads ==
  {CompanyBase,
   [CompanyBase EXCEPT !.title = Blank],
   [CompanyBase EXCEPT !.consentMinors = Html(<<>>)],
   [CompanyBase EXCEPT !.iban = [SampleIban EXCEPT ![18] = "8"]],
   [CompanyBase EXCEPT !.email = <<"a", "@", "b">>],
   [CompanyBase EXCEPT !.paypalEnabled = TRUE]}

Date(d) == <<"2", "0", "2", "7", "-", "0", d>>
Time == <<"1", "7", ":", "0", "0">>

PackageBase ==
  [name |-> Text, description |-> Text, categoryId |-> <<>>, companyId |-> <<>>,
   enrollmentId |-> <<>>, enrollmentPrice |-> Num(0), trainerIds |-> <<>>,
   whatsappAccountIds |-> <<>>, additionalFixedServices |-> <<>>,
   additionalVariableServices |-> <<>>, audience |-> "adult",
   ageMin |-> Num(18), ageMax |-> Num(99),
   durationType |-> "single-event", eventDate |-> Date("1"), eventTime |-> Time,
   periodStartDate |-> <<>>, periodEndDate |-> <<>>,
   gallery |-> <<>>, groups |-> <<>>,
   recurringPaymentEnabled |-> FALSE, paymentFrequency |-> "monthly",
   priceAmount |-> Num(50), monthlyDueDay |-> Null, monthlyNextCycleOpenDay |-> Null,
   weeklyDueWeekday |-> Null, firstPaymentOnSite |-> FALSE,
   trainingAddress |-> <<>>, entriesCount |-> Num(1),
   userSelectableSchedule |-> FALSE, featuredImage |-> <<>>,
   isFeatured |-> FALSE, isDescriptive |-> FALSE]

\* one valid form and one form failing each of the checks that read no catalog
PackageForms ==
  {PackageBase,
   [PackageBase EXCEPT !.name = Blank],
   [PackageBase EXCEPT !.ageMin = Num(30), !.ageMax = Num(20)],
   [PackageBase EXCEPT !.durationType = "period", !.periodStartDate = Date("2"),
                       !.periodEndDate = Date("1")],
   [PackageBase EXCEPT !.priceAmount = NaN],
   [PackageBase EXCEPT !.entriesCount = Null]}

EnrollmentChoices ==
  {<<<<>>, Num(0)>>, <<<<>>, NaN>>}
    \cup {<<e, Num(0)>> : e \in Known("enrollment", issued.enrollment)}
    \cup {<<Padded(e), Num(0)>> : e \in Known("enrollment", issued.enrollment)}
    \cup {<<e, Num(-5)>> : e \in Known("enrollment", issued.enrollment)}

WhatsAppChoices ==
  LET known == Known("wa", issued.wa)
  IN {<<>>} \cup {<<a>> : a \in known}
       \cup {pair \in known \X known : pair[1] # pair[2]}
       \cup {<<Padded(a), a>> : a \in known}

Selection(id, active) == [serviceId |-> id, isActive |-> active]
\* the fixed and the variable selections of a payload
ServiceChoices ==
  LET known == Known("service", issued.service)
  IN {<<<<>>, <<>>>>}
       \cup {<<<<Selection(a, TRUE)>>, <<>>>> : a \in known}
       \cup {<<<<>>, <<Selection(a, TRUE)>>>> : a \in known}
       \cup {<<<<Selection(a, TRUE)>>, <<Selection(b, TRUE)>>>> :
               a \in known, b \in known}
       \cup {<<<<Selection(a, TRUE), Selection(Padded(a), FALSE)>>, <<>>>> :
               a \in known}

Group(fieldId, schedules) ==
  [id |-> <<"g">>, title |-> Text, birthYearMin |-> Num(2010),
   birthYearMax |-> Num(2015), fieldId |-> fieldId, schedules |-> schedules]
Schedule == [id |-> <<"h">>, weekday |-> Num(1), time |-> Time]
GroupChoices ==
  LET known == Known("field", issued.field)
  IN {<<>>} \cup {<<Group(<<>>, <<Schedule>>)>> : f \in known}
       \cup {<<Group(f, <<Schedule>>)>> : f \in known}
       \cup {<<Group(Padded(f), <<Schedule>>)>> : f \in known}
       \cup {<<Group(f, <<>>)>> : f \in known}

PackagePayload(form, categoryId, companyId, enrollment, whatsapp, services, groups) ==
  [form EXCEPT !.categoryId = categoryId, !.companyId = companyId,
               !.enrollmentId = enrollment[1], !.enrollmentPrice = enrollment[2],
               !.whatsappAccountIds = whatsapp,
               !.additionalFixedServices = services[1],
               !.additionalVariableServices = services[2],
               !.groups = groups]

CompanyChoices == Known("company", issued.company) \cup {<<>>}

\* a form that fails one of the checks that read no catalog names a category
\* and a company, so that it gets as far as that check
FormChoices(form, choices, prefix) ==
  IF form = PackageBase THEN choices ELSE {<<Id(prefix, 0)>>}
\* the optional references are sent with the forms that get as far as the
\* checks on them
Only(form, categoryId, companyId, choices, none) ==
  IF form = PackageBase /\ categoryId # <<>> /\ companyId # <<>> THEN choices
  ELSE {none}

(***************************************************************************)
(* The calls.  A call runs from its read of the catalog to its result in   *)
(* one step; the caller then handles the result before the next call.      *)
(***************************************************************************)
NoCall == [op |-> "", id |-> <<>>, ok |-> FALSE, error |-> ""]
\* no form is open; the remove operations take an id and no payload
NoDraft == <<>>

Return(op, payload, r, kind) ==
  LET before == [store |-> store, emitted |-> 0, seen |-> seen]
      after == WriteAll(before, r.writes)
      creates == r.ok /\ kind # ""
  IN /\ last = NoCall
     /\ creates => issued[kind] < quota[kind]
     /\ store' = after.store
     /\ emitted' = after.emitted
     /\ seen' = after.seen
     /\ issued' = IF creates THEN [issued EXCEPT ![kind] = @ + 1] ELSE issued
     /\ last' = [op |-> op, id |-> r.id, ok |-> r.ok, error |-> r.error]
     /\ draft' = payload
     /\ UNCHANGED <<quota, tabs>>
     /\ UNCHANGED besideVars

\* the caller shows the result of the call (applyError, setMessage)
Handled ==
  /\ last # NoCall
  /\ last' = NoCall
  /\ emitted' = 0
  /\ draft' = NoDraft
  /\ UNCHANGED <<store, issued, quota, seen, tabs>>
  /\ UNCHANGED besideVars

CreateSportCategory ==
  \E payload \in CategoryPayloads :
    Return("createSportCategory", payload, createSportCategory(store, issued, payload), "sport")
UpdateSportCategory ==
  \E id \in IdArgs("sport", issued.sport), payload \in CategoryPayloads :
    Return("updateSportCategory", payload, updateSportCategory(store, id, payload), "")
RemoveSportCategory ==
  \E id \in IdArgs("sport", issued.sport) :
    Return("removeSportCategory", NoDraft, removeSportCategory(store, id), "")

CreateField ==
  \E payload \in FieldPayloads :
    Return("createField", payload, createField(store, issued, payload), "field")
UpdateField ==
  \E id \in IdArgs("field", issued.field), payload \in FieldPayloads :
    Return("updateField", payload, updateField(store, id, payload), "")
RemoveField ==
  \E id \in IdArgs("field", issued.field) :
    Return("removeField", NoDraft, removeField(store, id), "")

CreateEnrollment ==
  \E payload \in EnrollmentPayloads :
    Return("createEnrollment", payload, createEnrollment(store, issued, payload), "enrollment")
UpdateEnrollment ==
  \E id \in IdArgs("enrollment", issued.enrollment), payload \in EnrollmentPayloads :
    Return("updateEnrollment", payload, updateEnrollment(store, id, payload), "")
RemoveEnrollment ==
  \E id \in IdArgs("enrollment", issued.enrollment) :
    Return("removeEnrollment", NoDraft, removeEnrollment(store, id), "")

CreateWhatsAppAccount ==
  \E payload \in WhatsAppPayloads :
    Return("createWhatsAppAccount", payload, createWhatsAppAccount(store, issued, payload), "wa")
UpdateWhatsAppAccount ==
  \E id \in IdArgs("wa", issued.wa), payload \in WhatsAppPayloads :
    Return("updateWhatsAppAccount", payload, updateWhatsAppAccount(store, id, payload), "")
RemoveWhatsAppAccount ==
  \E id \in IdArgs("wa", issued.wa) :
    Return("removeWhatsAppAccount", NoDraft, removeWhatsAppAccount(store, id), "")

CreateAdditionalService ==
  \E payload \in ServicePayloads :
    Return("createAdditionalService", payload,
           createAdditionalService(store, issued, payload), "service")
UpdateAdditionalService ==
  \E id \in IdArgs("service", issued.service), payload \in ServicePayloads :
    Return("updateAdditionalService", payload, updateAdditionalService(store, id, payload), "")
RemoveAdditionalService ==
  \E id \in IdArgs("service", issued.service) :
    Return("removeAdditionalService", NoDraft, removeAdditionalService(store, id), "")

CreateCompany ==
  \E payload \in CompanyPayloads :
    Return("createCompany", payload, createCompany(store, issued, payload), "company")
UpdateCompany ==
  \E id \in IdArgs("company", issued.company), payload \in CompanyPayloads :
    Return("updateCompany", payload, updateCompany(store, id, payload), "")
RemoveCompany ==
  \E id \in IdArgs("company", issued.company) :
    Return("removeCompany", NoDraft, removeCompany(store, id), "")

CreateSportPackage ==
  \E form \in PackageForms :
  \E categoryId \in FormChoices(form, CategoryChoices, "sport"),
     companyId \in FormChoices(form, CompanyChoices, "company") :
  \E enrollment \in Only(form, categoryId, companyId, EnrollmentChoices,
                          <<<<>>, Num(0)>>),
     whatsapp \in Only(form, categoryId, companyId, WhatsAppChoices, <<>>),
     services \in Only(form, categoryId, companyId, ServiceChoices, <<<<>>, <<>>>>),
     groups \in Only(form, categoryId, companyId, GroupChoices, <<>>) :
    LET payload == PackagePayload(form, categoryId, companyId, enrollment,
                                  whatsapp, services, groups)
    IN Return("createSportPackage", payload,
              createSportPackage(store, issued, payload), "pkg")
UpdateSportPackage ==
  \E id \in IdArgs("pkg", issued.pkg),
     form \in PackageForms :
  \E categoryId \in FormChoices(form, CategoryChoices, "sport"),
     companyId \in FormChoices(form, CompanyChoices, "company") :
  \E enrollment \in Only(form, categoryId, companyId, EnrollmentChoices,
                          <<<<>>, Num(0)>>),
     whatsapp \in Only(form, categoryId, companyId, WhatsAppChoices, <<>>),
     services \in Only(form, categoryId, companyId, ServiceChoices, <<<<>>, <<>>>>),
     groups \in Only(form, categoryId, companyId, GroupChoices, <<>>) :
    LET payload == PackagePayload(form, categoryId, companyId, enrollment,
                                  whatsapp, services, groups)
    IN Return("updateSportPackage", payload,
              updateSportPackage(store, id, payload), "")
RemoveSportPackage ==
  \E id \in IdArgs("pkg", issued.pkg) :
    Return("removeSportPackage", NoDraft, removeSportPackage(store, id), "")

(***************************************************************************)
(* Runs.  The seed catalog (data/mock-packages.json) is not among the     *)
(* sources; a run starts from the catalog stored with every collection     *)
(* empty, which is what the removals leave of any seed.  A run exercises   *)
(* one part of the catalog: the generators of the other parts hand out at  *)
(* most the one id a package needs.                                        *)
(***************************************************************************)
NoIds ==
  [sport |-> 0, field |-> 0, enrollment |-> 0, wa |-> 0, service |-> 0,
   company |-> 0, pkg |-> 0]

Quotas ==
  {[NoIds EXCEPT !.sport = MaxCategories, !.field = MaxFields,
                 !.company = MaxCompanies, !.pkg = MaxPackages],
   [NoIds EXCEPT !.sport = 1, !.company = 1, !.service = MaxServices,
                 !.pkg = MaxPackages],
   [NoIds EXCEPT !.sport = 1, !.company = 1, !.enrollment = MaxEnrollments,
                 !.pkg = MaxPackages],
   [NoIds EXCEPT !.sport = 1, !.company = 1, !.wa = MaxWhatsApp,
                 !.pkg = MaxPackages]}

Init ==
  /\ store = EmptyCatalog
  /\ issued = NoIds
  /\ quota \in Quotas
  /\ last = NoCall
  /\ emitted = 0
  /\ seen = getStoredCatalog(EmptyCatalog)
  /\ tabs = <<>>
  /\ draft = NoDraft
  /\ BesideIdle

Next ==
  \/ CreateSportCategory \/ UpdateSportCategory \/ RemoveSportCategory
  \/ CreateField \/ UpdateField \/ RemoveField
  \/ CreateEnrollment \/ UpdateEnrollment \/ RemoveEnrollment
  \/ CreateWhatsAppAccount \/ UpdateWhatsAppAccount \/ RemoveWhatsAppAccount
  \/ CreateAdditionalService \/ UpdateAdditionalService \/ RemoveAdditionalService
  \/ CreateCompany \/ UpdateCompany \/ RemoveCompany
  \/ CreateSportPackage \/ UpdateSportPackage \/ RemoveSportPackage
  \/ Handled

Spec == Init /\ [][Next]_vars

(***************************************************************************)
(* Two pages on one localStorage.  A call reads the catalog when it starts *)
(* and writes the whole catalog when it ends; a call of another page may   *)
(* run between the two.  A page keeps the result of its call until it has  *)
(* shown it: the pages whose results were on show when the call ended      *)
(* (before) and whether its write is still the last one (latest).          *)
(***************************************************************************)
Pages == 1..MaxTabs

IdlePage ==
  [phase |-> "idle", call |-> NoCall, catalog |-> EmptyCatalog, n |-> NoIds,
   ok |-> FALSE, before |-> {}, latest |-> FALSE]

\* the category calls, with the payloads that have a label
RacePayloads == {payload \in CategoryPayloads : payload.label = Text}

RaceCalls ==
  {[op |-> "createSportCategory", id |-> <<>>, payload |-> payload] :
     payload \in RacePayloads}
    \cup {[op |-> "updateSportCategory", id |-> id, payload |-> payload] :
            id \in IdArgs("sport", issued.sport), payload \in RacePayloads}
    \cup {[op |-> "removeSportCategory", id |-> id, payload |-> <<>>] :
            id \in IdArgs("sport", issued.sport)}

Generator(call) == IF call.op = "createSportCategory" THEN "sport" ELSE ""

Apply(call, st, n) ==
  CASE call.op = "createSportCategory" -> createSportCategory(st, n, call.payload)
    [] call.op = "updateSportCategory" -> updateSportCategory(st, call.id, call.payload)
    [] call.op = "removeSportCategory" -> removeSportCategory(st, call.id)

\* the catalog a running call works on, read again at the time of the write
SnapshotAtWrite(t) == store
\* const catalog = getStoredCatalog(): the catalog a running call works on is
\* the one it read when it started
Snapshot(t) == tabs[t].catalog

BeginCall(t) ==
  /\ tabs[t].phase = "idle"
  /\ \E call \in RaceCalls :
       /\ Generator(call) # "" =>
            issued[Generator(call)]
              + Cardinality({u \in Pages : /\ tabs[u].phase = "read"
                                           /\ Generator(tabs[u].call) = Generator(call)})
              < quota[Generator(call)]
       /\ tabs' = [tabs EXCEPT ![t] = [IdlePage EXCEPT !.phase = "read",
                                                       !.call = call,
                                                       !.catalog = store]]
  /\ UNCHANGED <<store, issued, quota, last, emitted, seen, draft>>
  /\ UNCHANGED besideVars

FinishCall(t) ==
  /\ tabs[t].phase = "read"
  /\ LET r == Apply(tabs[t].call, Snapshot(t), issued)
         before == [store |-> store, emitted |-> 0, seen |-> seen]
         after == WriteAll(before, r.writes)
         creates == r.ok /\ Generator(tabs[t].call) # ""
     IN /\ store' = after.store
        /\ emitted' = after.emitted
        /\ seen' = after.seen
        /\ issued' = IF creates THEN [issued EXCEPT ![Generator(tabs[t].call)] = @ + 1]
                     ELSE issued
        /\ tabs' = [u \in Pages |->
                      IF u = t
                      THEN [tabs[t] EXCEPT
                              !.phase = "done", !.n = issued, !.ok = r.ok,
                              !.before = {w \in Pages : tabs[w].phase = "done"},
                              !.latest = r.writes # <<>>]
                      ELSE [tabs[u] EXCEPT !.latest = @ /\ r.writes = <<>>]]
  /\ UNCHANGED <<quota, last, draft>>
  /\ UNCHANGED besideVars

ShowResult(t) ==
  /\ tabs[t].phase = "done"
  /\ tabs' = [u \in Pages |->
                IF u = t THEN IdlePage
                ELSE [tabs[u] EXCEPT !.before = @ \ {t}]]
  /\ UNCHANGED <<store, issued, quota, last, emitted, seen, draft>>
  /\ UNCHANGED besideVars

InitRace ==
  /\ store = EmptyCatalog
  /\ issued = NoIds
  /\ quota = [NoIds EXCEPT !.sport = MaxCategories]
  /\ last = NoCall
  /\ emitted = 0
  /\ seen = getStoredCatalog(EmptyCatalog)
  /\ tabs = [t \in Pages |-> IdlePage]
  /\ draft = NoDraft
  /\ BesideIdle

NextRace == \E t \in Pages : BeginCall(t) \/ FinishCall(t) \/ ShowResult(t)

SpecRace == InitRace /\ [][NextRace]_vars

(***************************************************************************)
(* The package form.  The catalog holds two categories, a field of the     *)
(* first, a company, a fixed and a variable service, a WhatsApp account,   *)
(* with or without an enrollment type, and one package; it is built by the *)
(* create operations themselves.  The form holds a draft, and handleSubmit *)
(* passes it to createSportPackage or to updateSportPackage.               *)
(***************************************************************************)
Create(kind, st, n, payload) ==
  CASE kind = "sport" -> createSportCategory(st, n, payload)
    [] kind = "field" -> createField(st, n, payload)
    [] kind = "enrollment" -> createEnrollment(st, n, payload)
    [] kind = "wa" -> createWhatsAppAccount(st, n, payload)
    [] kind = "service" -> createAdditionalService(st, n, payload)
    [] kind = "company" -> createCompany(st, n, payload)
    [] kind = "pkg" -> createSportPackage(st, n, payload)

\* the stored catalog and the ids handed out after one create call
Created(kind, st, n, payload) ==
  LET r == Create(kind, st, n, payload)
      written == WriteAll([store |-> st, emitted |-> 0, seen |-> st], r.writes)
  IN [store |-> written.store,
      issued |-> IF r.ok THEN [n EXCEPT ![kind] = @ + 1] ELSE n]

RECURSIVE Seeded(_, _)
\* the stored catalog and the ids handed out after the calls, made in turn
\* from s
Seeded(s, calls) ==
  IF calls = <<>> THEN s
  ELSE CHOOSE seeded \in
         {Seeded(after, rest) :
            after \in {Created(Head(calls)[1], s.store, s.issued, Head(calls)[2])},
            rest \in {Tail(calls)}} : TRUE

Sport1 == <<Id("sport", 1)>>
Sport2 == <<Id("sport", 2)>>
Field1 == <<Id("field", 1)>>
Company1 == <<Id("company", 1)>>
Enrollment1 == <<Id("enrollment", 1)>>
Wa1 == <<Id("wa", 1)>>
Service1 == <<Id("service", 1)>>
Service2 == <<Id("service", 2)>>
Pkg1 == <<Id("pkg", 1)>>

SeedCalls(withEnrollment) ==
  <<<<"sport", [code |-> <<"a">>, label |-> Text, icon |-> <<>>, isActive |-> TRUE]>>,
    <<"sport", [code |-> <<"b">>, label |-> Text, icon |-> <<>>, isActive |-> TRUE]>>,
    <<"field", [title |-> Text, description |-> Text, categoryId |-> Sport1]>>,
    <<"company", CompanyBase>>,
    <<"service", [title |-> Text, description |-> Text, type |-> "fixed",
                  price |-> Num(10), isActive |-> TRUE]>>,
    <<"service", [title |-> Text, description |-> Text, type |-> "variable",
                  price |-> Null, isActive |-> TRUE]>>,
    <<"wa", WhatsAppBase>>>>
  \o (IF withEnrollment
      THEN <<<<"enrollment", [title |-> Text, description |-> Text]>>>>
      ELSE <<>>)
  \o <<<<"pkg", PackagePayload(PackageBase, Sport1, Company1,
                               <<IF withEnrollment THEN Enrollment1 ELSE <<>>, Num(0)>>,
                               <<>>, <<<<>>, <<>>>>, <<>>)>>>>

Seeds ==
  {Seeded([store |-> EmptyCatalog, issued |-> NoIds], SeedCalls(withEnrollment)) :
     withEnrollment \in BOOLEAN}

\* a draft that passes every check on the catalog with the enrollment type
FormBase ==
  PackagePayload(PackageBase, Sport1, Company1, <<Enrollment1, Num(0)>>, <<Wa1>>,
                 <<<<>>, <<>>>>, <<>>)

Unknown(prefix) == <<Id(prefix, 0)>>

\* drafts that fail any subset of the checks, and miss any one required field
OrderDrafts ==
  {[FormBase EXCEPT
      !.name = IF missing = "name" THEN Blank ELSE @,
      !.description = IF missing = "description" THEN <<>> ELSE @,
      !.categoryId = IF missing = "categoryId" THEN <<>> ELSE categoryId,
      !.companyId = IF missing = "companyId" THEN <<>> ELSE companyId,
      !.ageMax = ageMax, !.eventTime = eventTime, !.priceAmount = priceAmount,
      !.entriesCount = entriesCount, !.enrollmentId = enrollmentId,
      !.whatsappAccountIds = <<whatsappAccountId>>,
      !.additionalFixedServices = <<Selection(serviceId, TRUE)>>,
      !.groups = <<Group(fieldId, <<Schedule>>)>>] :
     missing \in {"", "name", "description", "categoryId", "companyId"},
     categoryId \in {Sport1, Unknown("sport")},
     companyId \in {Company1, Unknown("company")},
     ageMax \in {Num(99), Num(17)},
     eventTime \in {Time, <<>>},
     priceAmount \in {Num(50), NaN},
     entriesCount \in {Num(1), Null},
     enrollmentId \in {Enrollment1, <<>>},
     whatsappAccountId \in {Wa1, Unknown("wa")},
     serviceId \in {Service1, Service2},
     fieldId \in {Field1, Unknown("field")}}

\* an entriesCount that passes the check for the frequency
EntriesFor(recurringPaymentEnabled, paymentFrequency) ==
  IF recurringPaymentEnabled /\ paymentFrequency = "daily" THEN Null ELSE Num(1)

PaymentDrafts ==
  {[FormBase EXCEPT
      !.recurringPaymentEnabled = recurringPaymentEnabled,
      !.paymentFrequency = paymentFrequency,
      !.priceAmount = priceAmount,
      !.monthlyDueDay = monthlyDueDay,
      !.monthlyNextCycleOpenDay = monthlyNextCycleOpenDay,
      !.weeklyDueWeekday = weeklyDueWeekday,
      !.entriesCount = EntriesFor(recurringPaymentEnabled, paymentFrequency)] :
     recurringPaymentEnabled \in BOOLEAN,
     paymentFrequency \in Frequencies,
     priceAmount \in {Num(0), Num(-1), NaN, Half(0), Half(-1)},
     monthlyDueDay \in {Null, Num(0), Num(1), Num(31), Num(32), Half(1)},
     monthlyNextCycleOpenDay \in {Null, Num(1), Num(32)},
     weeklyDueWeekday \in {Null, Num(-1), Num(0), Num(6), Num(7)}}

EntriesDrafts ==
  {[FormBase EXCEPT
      !.recurringPaymentEnabled = recurringPaymentEnabled,
      !.paymentFrequency = paymentFrequency,
      !.monthlyDueDay = Num(5), !.monthlyNextCycleOpenDay = Num(20),
      !.weeklyDueWeekday = Num(1),
      !.entriesCount = entriesCount] :
     recurringPaymentEnabled \in BOOLEAN,
     paymentFrequency \in Frequencies,
     entriesCount \in {Null, NaN, Num(-1), Num(0), Num(1), Num(7), Num(8), Num(31),
                       Num(32), Num(365), Num(366), Half(0), Half(7)}}

DurationDrafts ==
  {[FormBase EXCEPT
      !.durationType = durationType, !.eventDate = eventDate,
      !.eventTime = eventTime, !.periodStartDate = periodStartDate,
      !.periodEndDate = periodEndDate] :
     durationType \in {"single-event", "period"},
     eventDate \in {<<>>, Blank, Padded(Date("1"))},
     eventTime \in {<<>>, Time},
     periodStartDate \in {<<>>, Date("1"), Date("2")},
     periodEndDate \in {<<>>, Blank, Date("1"), Padded(Date("2"))}}

EnrollmentDrafts ==
  {[FormBase EXCEPT !.enrollmentId = enrollmentId, !.enrollmentPrice = enrollmentPrice] :
     enrollmentId \in {<<>>, Blank, Enrollment1, Padded(Enrollment1),
                       Unknown("enrollment")},
     enrollmentPrice \in {Num(0), Num(-5), NaN, Half(0)}}

\* the selections of one list
Selections ==
  {<<>>} \cup {<<Selection(id, TRUE)>> :
                id \in {Service1, Service2, Unknown("service"), Padded(Service1), Blank}}
    \cup {<<Selection(Service1, TRUE), Selection(Service1, FALSE)>>}

ServiceDrafts ==
  {[FormBase EXCEPT !.additionalFixedServices = fixed,
                    !.additionalVariableServices = variable] :
     fixed \in Selections, variable \in Selections}

GroupDrafts ==
  {[FormBase EXCEPT !.categoryId = categoryId, !.groups = groups] :
     categoryId \in {Sport1, Sport2},
     groups \in {<<>>} \cup
       {<<Group(fieldId, <<Schedule>>)>> :
          fieldId \in {Field1, Padded(Field1), Unknown("field"), <<>>}}
       \cup {<<Group(Field1, <<Schedule>>), Group(Unknown("field"), <<Schedule>>)>>,
             <<Group(Field1, <<>>)>>,
             <<[Group(Field1, <<Schedule>>) EXCEPT !.title = Blank]>>,
             <<[Group(Field1, <<Schedule>>) EXCEPT !.birthYearMin = Num(1899)]>>}}

Drafts ==
  OrderDrafts \cup PaymentDrafts \cup EntriesDrafts \cup DurationDrafts
    \cup EnrollmentDrafts \cup ServiceDrafts \cup GroupDrafts

\* handleSubmit with modalMode 'create'
SubmitCreate ==
  /\ draft # NoDraft
  /\ Return("createSportPackage", draft, createSportPackage(store, issued, draft), "pkg")

\* handleSubmit with modalMode 'edit' and the id of the package on the form
SubmitEdit ==
  /\ draft # NoDraft
  /\ \E id \in IdArgs("pkg", issued.pkg) :
       Return("updateSportPackage", draft, updateSportPackage(store, id, draft), "")

\* the form is open on the catalog, with its draft filled in
InitForm ==
  /\ \E seed \in Seeds :
       /\ store = seed.store
       /\ issued = seed.issued
       /\ quota = [seed.issued EXCEPT !.pkg = @ + MaxPackages]
  /\ last = NoCall
  /\ emitted = 0
  /\ seen = getStoredCatalog(store)
  /\ tabs = <<>>
  /\ draft \in Drafts
  /\ BesideIdle

NextForm == SubmitCreate \/ SubmitEdit

SpecForm == InitForm /\ [][NextForm]_vars

(***************************************************************************)
(* The calls on a catalog whose package a workflow outside the catalog has *)
(* published or archived.                                                  *)
(***************************************************************************)
Statuses == {"draft", "published", "archived"}

\* the seeded catalog with its package in the status
Advanced(seed, status) ==
  [seed EXCEPT !.store.packages = [k \in DOMAIN @ |-> [@[k] EXCEPT !.status = status]]]

InitStatus ==
  /\ \E seed \in Seeds, status \in Statuses :
       /\ store = Advanced(seed, status).store
       /\ issued = seed.issued
       /\ quota = [kind \in DOMAIN seed.issued |-> seed.issued[kind] + 1]
  /\ last = NoCall
  /\ emitted = 0
  /\ seen = getStoredCatalog(store)
  /\ tabs = <<>>
  /\ draft = NoDraft
  /\ BesideIdle

\* one call of the catalog
NextStatus ==
  \/ CreateSportCategory \/ UpdateSportCategory \/ RemoveSportCategory
  \/ CreateField \/ UpdateField \/ RemoveField
  \/ CreateEnrollment \/ UpdateEnrollment \/ RemoveEnrollment
  \/ CreateWhatsAppAccount \/ UpdateWhatsAppAccount \/ RemoveWhatsAppAccount
  \/ CreateAdditionalService \/ UpdateAdditionalService \/ RemoveAdditionalService
  \/ CreateCompany \/ UpdateCompany \/ RemoveCompany
  \/ CreateSportPackage \/ UpdateSportPackage \/ RemoveSportPackage

SpecStatus == InitStatus /\ [][NextStatus]_vars

(***************************************************************************)
(* The normalization functions, each applied to an input and then to what  *)
(* it returned.                                                            *)
(***************************************************************************)
\* the catalog is empty and no page is on it
CatalogIdle ==
  /\ store = EmptyCatalog
  /\ issued = NoIds
  /\ quota = NoIds
  /\ last = NoCall
  /\ emitted = 0
  /\ seen = getStoredCatalog(EmptyCatalog)
  /\ tabs = <<>>
  /\ draft = NoDraft

Input(fn, values) == {[fn |-> fn, value |-> value] : value \in values}

\* the inputs of each function
NormalizeInputs ==
  <<Input("normalizeCode",
        {<<>>, <<"a">>, <<"-">>, <<"-", " ", "a">>, <<"A", " ", " ", "b">>,
         <<"a", "-", "!", "-", "b">>, <<"a", "!">>,
         <<" ", "-", "A", " ", " ", "!", "-", "1", "-">>}),
    Input("normalizeIban",
                {<<>>, Blank, SampleIban, Padded(SampleIban),
                 <<"i", "t", " ", "6", "0", " ", "x">>, <<"D", "e", "-", "1">>}),
    Input("normalizePhoneNumber",
                {<<>>, Blank, Phone, Padded(Phone), <<"+">>, <<" ", "+", "a", "1">>,
                 <<"1", "+", "2">>, <<"a">>, <<"3", " ", "3">>}),
    Input("normalizePackageDuration", DurationDrafts),
    Input("normalizePackagePayment", PaymentDrafts),
    Input("normalizePackageEntries", EntriesDrafts),
    Input("normalizePackageTrainers",
                {<<>>, <<1>>, <<1, 1>>, <<2, 0, 1, 2>>, <<-1, 3>>, <<3, 1, 3, 1>>}),
    Input("normalizePackageWhatsAppAccountIds",
                {<<>>, <<Wa1>>, <<Wa1, Padded(Wa1)>>, <<Blank, Wa1>>, <<<<>>>>,
                 <<Padded(Wa1), Unknown("wa"), Wa1>>}),
    Input("normalizePackageAdditionalServices",
                {d.additionalFixedServices : d \in ServiceDrafts}
                  \cup {<<Selection(Padded(Service1), TRUE), Selection(Service2, TRUE),
                           Selection(Service1, FALSE)>>,
                         <<Selection(Blank, TRUE)>>})>>

\* the value the function is applied to: the input, then what was returned
Operand == IF out = Nothing THEN arg.value ELSE out[Len(out)]

\* an object passed for a payload: a field it lacks reads as undefined, which
\* is not true and is no frequency
AsPayload(value) ==
  IF "recurringPaymentEnabled" \in DOMAIN value THEN value
  ELSE [recurringPaymentEnabled |-> FALSE, paymentFrequency |-> "",
        entriesCount |-> value.entriesCount]

\* the function has returned
Returned(fn, value) ==
  /\ arg.fn = fn
  /\ Len(out) < 2
  /\ out' = Append(out, value)
  /\ UNCHANGED <<users, session, ever, languageSettings, currentLanguage, arg>>
  /\ UNCHANGED catalogVars

NormalizeCode == Returned("normalizeCode", normalizeCode(Operand))
NormalizeIban == Returned("normalizeIban", normalizeIban(Operand))
NormalizePhoneNumber == Returned("normalizePhoneNumber", normalizePhoneNumber(Operand))
NormalizePackageDuration ==
  Returned("normalizePackageDuration", normalizePackageDuration(Operand))
NormalizePackagePayment ==
  Returned("normalizePackagePayment", normalizePackagePayment(Operand))
NormalizePackageEntries ==
  Returned("normalizePackageEntries", normalizePackageEntries(AsPayload(Operand)))
NormalizePackageTrainers ==
  Returned("normalizePackageTrainers", normalizePackageTrainers(Operand))
NormalizePackageWhatsAppAccountIds ==
  Returned("normalizePackageWhatsAppAccountIds",
           normalizePackageWhatsAppAccountIds(Operand))
NormalizePackageAdditionalServices ==
  Returned("normalizePackageAdditionalServices",
           normalizePackageAdditionalServices(Operand))

InitNormalize ==
  /\ CatalogIdle
  /\ users = Nothing
  /\ session = Nothing
  /\ ever = Nothing
  /\ languageSettings = Nothing
  /\ currentLanguage = Nothing
  /\ \E k \in DOMAIN NormalizeInputs : arg \in NormalizeInputs[k]
  /\ out = Nothing

NextNormalize ==
  \/ NormalizeCode \/ NormalizeIban \/ NormalizePhoneNumber
  \/ NormalizePackageDuration \/ NormalizePackagePayment \/ NormalizePackageEntries
  \/ NormalizePackageTrainers \/ NormalizePackageWhatsAppAccountIds
  \/ NormalizePackageAdditionalServices

SpecNormalize == InitNormalize /\ [][NextNormalize]_vars

(***************************************************************************)
(* The lines the packages page shows for the schedules of a group.         *)
(***************************************************************************)
MaxSchedules == 3

WEEK_DAYS ==
  <<[value |-> 1, labelKey |-> "utility.packages.weekdayMonday"],
    [value |-> 2, labelKey |-> "utility.packages.weekdayTuesday"],
    [value |-> 3, labelKey |-> "utility.packages.weekdayWednesday"],
    [value |-> 4, labelKey |-> "utility.packages.weekdayThursday"],
    [value |-> 5, labelKey |-> "utility.packages.weekdayFriday"],
    [value |-> 6, labelKey |-> "utility.packages.weekdaySaturday"],
    [value |-> 0, labelKey |-> "utility.packages.weekdaySunday"]>>

\* WEEKDAY_SORT_ORDER.get(day) ?? 99
WEEKDAY_SORT_ORDER(day) ==
  IF \E i \in 1..Len(WEEK_DAYS) : WEEK_DAYS[i].value = day.v
  THEN (CHOOSE i \in 1..Len(WEEK_DAYS) : WEEK_DAYS[i].value = day.v) - 1
  ELSE 99

\* t(key): the text of the key in the language of the page, written as the key
Translated(key) == key

\* weekdayLabelByValue.get(day) ?? String(day)
weekdayLabel(day) ==
  IF \E i \in 1..Len(WEEK_DAYS) : WEEK_DAYS[i].value = day.v
  THEN Translated(WEEK_DAYS[CHOOSE i \in 1..Len(WEEK_DAYS) : WEEK_DAYS[i].value = day.v].labelKey)
  ELSE ToString(day.v)

RECURSIVE JoinWith(_, _)
\* values.join(separator), a text per value and per separator
JoinWith(values, separator) ==
  IF Len(values) <= 1 THEN values
  ELSE <<Head(values), separator>> \o JoinWith(Tail(values), separator)

joinWithConjunction(values, conjunction) ==
  IF Len(values) <= 1 THEN values
  ELSE IF Len(values) = 2 THEN <<values[1], " ", conjunction, " ", values[2]>>
  ELSE JoinWith(SubSeq(values, 1, Len(values) - 1), ", ")
         \o <<" ", conjunction, " ", values[Len(values)]>>

RECURSIVE Split(_, _)
\* value.split(separator)
Split(value, separator) ==
  IF ~Includes(value, separator) THEN <<value>>
  ELSE LET i == CHOOSE k \in 1..Len(value) :
                  value[k] = separator /\ \A j \in 1..(k - 1) : value[j] # separator
       IN <<SubSeq(value, 1, i - 1)>> \o Split(SubSeq(value, i + 1, Len(value)), separator)

\* s.padStart(2, '0')
PadStart2(s) == IF Len(s) = 0 THEN <<"0", "0">> ELSE IF Len(s) = 1 THEN <<"0">> \o s ELSE s

formatHour(value) ==
  LET parts == Split(value, ":")
  IN IF Len(parts) < 2 \/ parts[1] = <<>> \/ parts[2] = <<>> THEN value
     ELSE PadStart2(parts[1]) \o <<".">> \o PadStart2(parts[2])

RECURSIVE GroupedByTime(_)
\* the Map from a time to the weekdays pushed under it, a key at the place of
\* its first set
GroupedByTime(schedules) ==
  IF schedules = <<>> THEN <<>>
  ELSE LET grouped == GroupedByTime(SubSeq(schedules, 1, Len(schedules) - 1))
           schedule == schedules[Len(schedules)]
       IN IF Some(grouped, LAMBDA entry : entry.time = schedule.time)
          THEN Map(LAMBDA entry :
                     IF entry.time = schedule.time
                     THEN [entry EXCEPT !.weekdays = Append(@, schedule.weekday)]
                     ELSE entry,
                   grouped)
          ELSE Append(grouped, [time |-> schedule.time, weekdays |-> <<schedule.weekday>>])

\* array.sort(compare), compare(a, b) < 0 written Before(a, b): an item comes
\* behind the items that are before it and behind the items ahead of it in
\* the array that it is not before
Sorted(items, Before(_, _)) ==
  LET Place(k) ==
        1 + Cardinality({j \in 1..Len(items) :
                           \/ Before(items[j], items[k])
                           \/ ~Before(items[k], items[j]) /\ j < k})
  IN [place \in 1..Len(items) |-> items[CHOOSE k \in 1..Len(items) : Place(k) = place]]

\* formatGroupSchedules with the days sorted by their number
formatGroupSchedulesByNumber(schedules) ==
  LET entries == Sorted(GroupedByTime(schedules),
                        LAMBDA a, b : StrLess(a.time, b.time))
  IN Map(LAMBDA entry :
           LET sortedDays == Sorted(Dedupe(entry.weekdays), LAMBDA left, right : left.v < right.v)
               dayLabels == Map(weekdayLabel, sortedDays)
           IN joinWithConjunction(dayLabels, Translated("utility.packages.andConjunction"))
                \o <<" ", Translated("utility.packages.atHourLabel"), " ">> \o formatHour(entry.time),
         entries)

formatGroupSchedules(schedules) ==
  LET entries == Sorted(GroupedByTime(schedules),
                        LAMBDA a, b : StrLess(a.time, b.time))
  IN Map(LAMBDA entry :
           LET sortedDays ==
                 Sorted(Dedupe(entry.weekdays),
                        LAMBDA left, right :
                          WEEKDAY_SORT_ORDER(left) - WEEKDAY_SORT_ORDER(right) < 0)
               dayLabels == Map(weekdayLabel, sortedDays)
           IN joinWithConjunction(dayLabels, Translated("utility.packages.andConjunction"))
                \o <<" ", Translated("utility.packages.atHourLabel"), " ">> \o formatHour(entry.time),
         entries)

\* the schedules a group passes isValidPackageGroups with: a weekday from 0
\* to 6 at a time hh:mm
ScheduleChoices ==
  {[id |-> <<"h">>, weekday |-> Num(weekday), time |-> time] :
     weekday \in 0..6, time \in {Time, <<"0", "9", ":", "3", "0">>}}

ScheduleLists ==
  UNION {[1..n -> ScheduleChoices] : n \in 0..MaxSchedules}

FormatGroupSchedules ==
  /\ arg.fn = "formatGroupSchedules"
  /\ out = Nothing
  /\ out' = <<formatGroupSchedules(arg.value)>>
  /\ UNCHANGED <<users, session, ever, languageSettings, currentLanguage, arg>>
  /\ UNCHANGED catalogVars

InitSchedules ==
  /\ CatalogIdle
  /\ users = Nothing
  /\ session = Nothing
  /\ ever = Nothing
  /\ languageSettings = Nothing
  /\ currentLanguage = Nothing
  /\ arg \in Input("formatGroupSchedules", ScheduleLists)
  /\ out = Nothing

NextSchedules == FormatGroupSchedules

SpecSchedules == InitSchedules /\ [][NextSchedules]_vars

(***************************************************************************)
(* isValidIban on IBANs, on each with one digit replaced and on values     *)
(* that are no IBAN.                                                       *)
(***************************************************************************)
\* IBANs of Norway, Belgium and Great Britain, the first as it is typed
IbanSamples ==
  {SampleIban,
   <<"B", "E", "6", "8", "5", "3", "9", "0", "0", "7", "5", "4", "7", "0", "3", "4">>,
   <<"G", "B", "8", "2", "W", "E", "S", "T", "1", "2", "3", "4", "5", "6", "9", "8",
     "7", "6", "5", "4", "3", "2">>}

\* the places of the decimal digits of a value
DigitPlaces(value) == {k \in 1..Len(value) : IsDigit(value[k])}

\* the values that differ from it in one decimal digit
OneDigitReplaced(value) ==
  {[value EXCEPT ![k] = digit] :
     k \in DigitPlaces(value), digit \in Range(Digits)} \ {value}

IbanInputs ==
  IbanSamples
    \cup UNION {OneDigitReplaced(iban) : iban \in IbanSamples}
    \cup {<<>>, Blank, <<"N", "O">>, <<"N", "O", "9">>,
           SubSeq(SampleIban, 1, 17), SampleIban \o <<"0">>,
           [SampleIban EXCEPT ![1] = "z", ![2] = "z"],
           [SampleIban EXCEPT ![1] = "9"],
           [SampleIban EXCEPT ![18] = "-"],
           [SampleIban EXCEPT ![18] = "x"]}

IsValidIban ==
  /\ arg.fn = "isValidIban"
  /\ out = Nothing
  /\ out' = <<isValidIban(arg.value)>>
  /\ UNCHANGED <<users, session, ever, languageSettings, currentLanguage, arg>>
  /\ UNCHANGED catalogVars

InitIban ==
  /\ CatalogIdle
  /\ users = Nothing
  /\ session = Nothing
  /\ ever = Nothing
  /\ languageSettings = Nothing
  /\ currentLanguage = Nothing
  /\ arg \in Input("isValidIban", IbanInputs)
  /\ out = Nothing

NextIban == IsValidIban

SpecIban == InitIban /\ [][NextIban]_vars

(***************************************************************************)
(* Users.  USERS_KEY holds the list of users; a call reads it through      *)
(* getUsers and writes it whole.  An actor role that is not passed, or is  *)
(* the empty string, is written "".                                        *)
(***************************************************************************)
ALL_ROLE_KEYS ==
  <<"super-administrator", "administrator", "editor-admin", "trainer", "subscribers",
    "client">>

MANAGEMENT_ROLES == <<"super-administrator", "administrator", "editor-admin", "trainer">>

ToLowerCase(value) == Map(ToLowerChar, value)

normalizeRole(role) ==
  IF role = "subscriber" THEN "subscribers"
  ELSE IF Includes(ALL_ROLE_KEYS, role) THEN role ELSE "client"

normalizeUser(input) ==
  LET firstName == Trim(input.firstName)
      lastName == Trim(input.lastName)
  IN [id |-> input.id,
      role |-> normalizeRole(input.role),
      firstName |-> firstName,
      lastName |-> lastName,
      name |-> Trim(firstName \o <<" ">> \o lastName),
      email |-> ToLowerCase(Trim(input.email)),
      login |-> ToLowerCase(Trim(input.login)),
      password |-> input.password,
      avatarUrl |-> input.avatarUrl,
      age |-> IF IsFinite(input.age) THEN Trunc(input.age) ELSE Null,
      sector |-> Trim(input.sector),
      profession |-> Trim(input.profession),
      permissions |-> Filter(input.permissions, LAMBDA item : Len(Trim(item)) > 0)]

\* the stored list, each user normalized
getUsers(stored) == Map(normalizeUser, stored)

\* Math.max(0, ...ids) + 1
nextUserId(list) == MaxOf({0} \cup {list[k].id : k \in 1..Len(list)}) + 1

isAllowedRole(role) == Includes(ALL_ROLE_KEYS, role)

\* the error of the payload, "" for none
validatePayload(payload) ==
  IF \/ Trim(payload.firstName) = <<>>
     \/ Trim(payload.lastName) = <<>>
     \/ Trim(payload.login) = <<>>
     \/ Trim(payload.password) = <<>>
     \/ Trim(payload.email) = <<>>
     \/ ~isAllowedRole(payload.role)
  THEN "invalid"
  ELSE IF ~isValidEmail(payload.email) THEN "invalidEmail"
  ELSE IF /\ payload.role = "editor-admin"
          /\ (Trim(payload.sector) = <<>> \/ Trim(payload.profession) = <<>>)
  THEN "invalid"
  ELSE IF /\ payload.role = "trainer"
          /\ (~IsInteger(payload.age) \/ payload.age.v <= 0)
  THEN "invalid"
  ELSE ""

\* normalizePayload with the email and the login trimmed only
normalizePayloadKeepingCase(payload) ==
  [payload EXCEPT
     !.firstName = Trim(@),
     !.lastName = Trim(@),
     !.avatarUrl = Trim(@),
     !.login = Trim(@),
     !.email = Trim(@),
     !.age = IF payload.role = "trainer" /\ IsInteger(@) THEN @ ELSE Null,
     !.sector = IF payload.role = "editor-admin" THEN Trim(@) ELSE <<>>,
     !.profession = IF payload.role = "editor-admin" THEN Trim(@) ELSE <<>>,
     !.permissions = IF payload.role = "editor-admin" THEN @ ELSE <<>>]

normalizePayload(payload) ==
  [payload EXCEPT
     !.firstName = Trim(@),
     !.lastName = Trim(@),
     !.avatarUrl = Trim(@),
     !.login = ToLowerCase(Trim(@)),
     !.email = ToLowerCase(Trim(@)),
     !.age = IF payload.role = "trainer" /\ IsInteger(@) THEN @ ELSE Null,
     !.sector = IF payload.role = "editor-admin" THEN Trim(@) ELSE <<>>,
     !.profession = IF payload.role = "editor-admin" THEN Trim(@) ELSE <<>>,
     !.permissions = IF payload.role = "editor-admin" THEN @ ELSE <<>>]

\* canCreateRole with an administrator creating administrators as well
canCreateRoleOfPeers(actorRole, targetRole) ==
  IF actorRole = "super-administrator" THEN TRUE
  ELSE IF actorRole = "administrator"
  THEN targetRole \in {"administrator", "editor-admin", "trainer", "subscribers"}
  ELSE IF actorRole = "editor-admin" THEN targetRole \in {"trainer", "subscribers"}
  ELSE FALSE

canCreateRole(actorRole, targetRole) ==
  IF actorRole = "super-administrator" THEN TRUE
  ELSE IF actorRole = "administrator"
  THEN targetRole \in {"editor-admin", "trainer", "subscribers"}
  ELSE IF actorRole = "editor-admin" THEN targetRole \in {"trainer", "subscribers"}
  ELSE FALSE

\* the session under SESSION_KEY, Nothing when there is none; the token, which
\* no call reads, is left out
getSessionUser(stored, stamp) ==
  IF stamp = Nothing THEN Nothing
  ELSE IF HasId(getUsers(stored), stamp.userId)
  THEN FindById(getUsers(stored), stamp.userId)
  ELSE Nothing

hasSessionPermission(stored, stamp, permission) ==
  LET user == getSessionUser(stored, stamp)
  IN IF user = Nothing THEN FALSE
     ELSE IF user.role \in {"super-administrator", "administrator"} THEN TRUE
     ELSE IF user.role # "editor-admin" THEN FALSE
     ELSE Includes(user.permissions, permission)

isManagementRole(role) == Includes(MANAGEMENT_ROLES, role)

canAccessPackages(role) == isManagementRole(role)

createSession(user) ==
  [userId |-> user.id,
   name |-> Trim(user.firstName \o <<" ">> \o user.lastName),
   email |-> user.email,
   role |-> user.role]

\* { ok: true, session } with the session it stored, or { ok: false, errorKey }
loginWithEmailPassword(stored, email, password) ==
  LET normalizedEmail == ToLowerCase(Trim(email))
      found == Filter(getUsers(stored),
                      LAMBDA item : ToLowerCase(item.email) = normalizedEmail)
  IN IF found = <<>> \/ found[1].password # password
     THEN [ok |-> FALSE, errorKey |-> "invalidCredentials", session |-> Nothing]
     ELSE [ok |-> TRUE, errorKey |-> "", session |-> createSession(found[1])]

\* what a call on the users returns, { ok: true, user } or { ok: false, error },
\* and the list it leaves under USERS_KEY
Saved(list, user) == [ok |-> TRUE, error |-> "", user |-> user, users |-> list]
Refused(stored, error) == [ok |-> FALSE, error |-> error, user |-> Nothing, users |-> stored]

\* the payload's fields over the fields of the user
Spread(user, normalized) ==
  [field \in DOMAIN user |->
     IF field \in DOMAIN normalized THEN normalized[field] ELSE user[field]]

createUser(stored, payload, actorRole) ==
  LET validationError == validatePayload(payload)
      normalized == normalizePayload(payload)
      list == getUsers(stored)
      duplicateEmail == Some(list, LAMBDA user : user.email = normalized.email)
      duplicateLogin == Some(list, LAMBDA user : user.login = normalized.login)
      user == normalizeUser([id |-> nextUserId(list)] @@ normalized)
  IN IF validationError # "" THEN Refused(stored, validationError)
     ELSE IF actorRole # "" /\ ~canCreateRole(actorRole, payload.role)
     THEN Refused(stored, "notAllowedRole")
     ELSE IF duplicateEmail THEN Refused(stored, "duplicateEmail")
     ELSE IF duplicateLogin THEN Refused(stored, "duplicateLogin")
     ELSE Saved(Append(list, user), user)

updateUser(stored, id, payload, actorRole) ==
  LET validationError == validatePayload(payload)
      normalized == normalizePayload(payload)
      list == getUsers(stored)
      current == FindById(list, id)
      duplicateEmail ==
        Some(list, LAMBDA user : user.id # id /\ user.email = normalized.email)
      duplicateLogin ==
        Some(list, LAMBDA user : user.id # id /\ user.login = normalized.login)
      user == normalizeUser(Spread(current, normalized))
  IN IF validationError # "" THEN Refused(stored, validationError)
     ELSE IF actorRole # "" /\ ~canCreateRole(actorRole, payload.role)
     THEN Refused(stored, "notAllowedRole")
     ELSE IF ~HasId(list, id) THEN Refused(stored, "notFound")
     ELSE IF duplicateEmail THEN Refused(stored, "duplicateEmail")
     ELSE IF duplicateLogin THEN Refused(stored, "duplicateLogin")
     ELSE Saved(ReplaceById(list, id, user), user)

removeUser(stored, id, actorRole) ==
  LET list == getUsers(stored)
      current == FindById(list, id)
  IN IF ~HasId(list, id) THEN Refused(stored, "notFound")
     ELSE IF actorRole # "" /\ ~canCreateRole(actorRole, current.role)
     THEN Refused(stored, "notAllowedRole")
     ELSE Saved(WithoutId(list, id), current)

(***************************************************************************)
(* Properties of the sequential calls.                                     *)
(***************************************************************************)

\* C1: a call that returns { ok: false, error } leaves the stored catalog as
\* it was before the call and dispatches no pys-package-catalog-changed
\* event (the subscribed handler does not run).
C1_FailureLeavesCatalog ==
  [][(last' # NoCall /\ ~last'.ok)
       => (store' = store /\ emitted' = 0 /\ seen' = seen)]_vars

\* a createField naming a removed category has failed on a catalog that is
\* not empty
C1_Witness ==
  /\ last.op = "createField" /\ ~last.ok /\ last.error = "categoryNotFound"
  /\ store # EmptyCatalog

\* C2: in every state of the stored catalog, each package's categoryId is
\* the id of a stored category and its companyId the id of a stored company.
C2_PackageCategoryAndCompanyExist ==
  \A i \in 1..Len(store.packages) :
    /\ HasId(store.sportCategories, store.packages[i].categoryId)
    /\ HasId(store.companies, store.packages[i].companyId)

\* removeCompany has been refused for the company of a stored package
C2_Witness ==
  /\ last.op = "removeCompany" /\ last.error = "companyInUse"
  /\ \E i \in 1..Len(store.packages) : store.packages[i].companyId = last.id

\* C3: in every state of the stored catalog, each group of each package has
\* a fieldId that is the id of a stored field whose categoryId is the
\* package's categoryId.
C3_GroupFieldInPackageCategory ==
  \A i \in 1..Len(store.packages) :
    \A g \in 1..Len(store.packages[i].groups) :
      LET fieldId == store.packages[i].groups[g].fieldId
      IN /\ HasId(store.fields, fieldId)
         /\ FindById(store.fields, fieldId).categoryId = store.packages[i].categoryId

\* C4: in every state of the stored catalog, each fixed selection of a
\* package names a stored service of type fixed, each variable selection a
\* stored service of type variable, and no service is in both lists.
C4_SelectionsMatchServices ==
  \A i \in 1..Len(store.packages) :
    LET item == store.packages[i]
        OfType(selections, type) ==
          \A k \in 1..Len(selections) :
            /\ HasId(store.additionalServices, selections[k].serviceId)
            /\ FindById(store.additionalServices, selections[k].serviceId).type = type
    IN /\ OfType(item.additionalFixedServices, "fixed")
       /\ OfType(item.additionalVariableServices, "variable")
       /\ \A k \in 1..Len(item.additionalFixedServices) :
            \A m \in 1..Len(item.additionalVariableServices) :
              item.additionalFixedServices[k].serviceId
                # item.additionalVariableServices[m].serviceId

\* C5: in every state of the stored catalog, a package's enrollmentId is
\* empty or the id of a stored enrollment type.
C5_PackageEnrollmentExists ==
  \A i \in 1..Len(store.packages) :
    \/ store.packages[i].enrollmentId = <<>>
    \/ HasId(store.enrollments, store.packages[i].enrollmentId)

C7_RemoveSportCategoryGuard ==
  [][last'.op = "removeSportCategory"
       => LET catalog == getStoredCatalog(store)
              id == last'.id
              used ==
                \/ \E i \in 1..Len(catalog.fields) : catalog.fields[i].categoryId = id
                \/ \E i \in 1..Len(catalog.packages) :
                     catalog.packages[i].categoryId = id
          IN /\ ~HasId(catalog.sportCategories, id)
                  => (~last'.ok /\ last'.error = "notFound" /\ store' = store)
             /\ used => (~last'.ok /\ last'.error = "categoryInUse" /\ store' = store)
             /\ (HasId(catalog.sportCategories, id) /\ ~used)
                  => /\ last'.ok
                     /\ getStoredCatalog(store') =
                          [catalog EXCEPT !.sportCategories = WithoutId(@, id)]]_vars

\* removal has been refused for a category that only a field refers to
C7_Witness ==
  /\ last.op = "removeSportCategory" /\ last.error = "categoryInUse"
  /\ store.packages = <<>>
  /\ \E i \in 1..Len(store.fields) : store.fields[i].categoryId = last.id

\* C8: removeField(id) returns fieldInUse and removes nothing when a group
\* of some package has fieldId = id.
C8_RemoveFieldGuard ==
  [][(/\ last'.op = "removeField"
      /\ \E i \in 1..Len(getStoredCatalog(store).packages) :
           \E g \in 1..Len(getStoredCatalog(store).packages[i].groups) :
             getStoredCatalog(store).packages[i].groups[g].fieldId = last'.id)
       => (~last'.ok /\ last'.error = "fieldInUse" /\ store' = store)]_vars

\* removal has been refused for the field of a package group
C8_Witness ==
  /\ last.op = "removeField" /\ last.error = "fieldInUse"
  /\ \E i \in 1..Len(store.packages) :
       \E g \in 1..Len(store.packages[i].groups) :
         store.packages[i].groups[g].fieldId = last.id

\* C10: a call that returns { ok: true } has dispatched exactly one
\* pys-package-catalog-changed event, after its write: the handler that read
\* the catalog again during the event has read the catalog the call left.
C10_OneEventAfterWrite ==
  last.ok => (emitted = 1 /\ seen = getStoredCatalog(store))

\* a package has been updated and the handler has read it
C10_Witness ==
  /\ last.op = "updateSportPackage" /\ last.ok
  /\ seen.packages # <<>>


(***************************************************************************)
(* Properties of the calls of two pages.                                   *)
(***************************************************************************)

\* C9: when two calls have read the same stored catalog before either of
\* them wrote and both have succeeded, the stored catalog is the one the
\* later of the two wrote from what it had read: the catalog without the
\* change of the earlier call, with the change of the later one.
C9_LastWriterWins ==
  \A t \in DOMAIN tabs : \A u \in DOMAIN tabs \ {t} :
    (/\ tabs[t].phase = "done" /\ tabs[t].ok
     /\ tabs[u].phase = "done" /\ tabs[u].ok
     /\ t \in tabs[u].before
     /\ tabs[u].latest
     /\ tabs[t].catalog = tabs[u].catalog)
      => store = toJSON(Apply(tabs[u].call, tabs[u].catalog, tabs[u].n).writes[1])

\* two pages have each created a category from the empty catalog and only
\* the category of the later one is stored
C9_Witness ==
  \E t \in DOMAIN tabs : \E u \in DOMAIN tabs \ {t} :
    /\ tabs[t].phase = "done" /\ tabs[t].ok
    /\ tabs[u].phase = "done" /\ tabs[u].ok
    /\ t \in tabs[u].before
    /\ tabs[t].call.op = "createSportCategory"
    /\ tabs[u].call.op = "createSportCategory"
    /\ tabs[t].catalog = tabs[u].catalog
    /\ Len(store.sportCategories) = Len(tabs[u].catalog.sportCategories) + 1
    /\ store # toJSON(Apply(tabs[t].call, tabs[t].catalog, tabs[t].n).writes[1])

(***************************************************************************)
(* Properties of the records a call writes.  The collections are read as   *)
(* the getters return them (getStoredCatalog).                             *)
(***************************************************************************)
Collections ==
  {"sportCategories", "fields", "enrollments", "whatsappAccounts",
   "additionalServices", "companies", "packages"}

\* the collection each create and update operation writes
CollectionOf(op) ==
  CASE op \in {"createSportCategory", "updateSportCategory"} -> "sportCategories"
    [] op \in {"createField", "updateField"} -> "fields"
    [] op \in {"createEnrollment", "updateEnrollment"} -> "enrollments"
    [] op \in {"createWhatsAppAccount", "updateWhatsAppAccount"} -> "whatsappAccounts"
    [] op \in {"createAdditionalService", "updateAdditionalService"} -> "additionalServices"
    [] op \in {"createCompany", "updateCompany"} -> "companies"
    [] op \in {"createSportPackage", "updateSportPackage"} -> "packages"
    [] OTHER -> ""

CreateOps ==
  {"createSportCategory", "createField", "createEnrollment", "createWhatsAppAccount",
   "createAdditionalService", "createCompany", "createSportPackage"}
UpdateOps ==
  {"updateSportCategory", "updateField", "updateEnrollment", "updateWhatsAppAccount",
   "updateAdditionalService", "updateCompany", "updateSportPackage"}

IsSlug(code) ==
  /\ code # <<>>
  /\ Every(code, IsSlugChar)
  /\ Head(code) # "-" /\ code[Len(code)] # "-"
  /\ \A i \in 1..(Len(code) - 1) : ~(code[i] = "-" /\ code[i + 1] = "-")

CategoryOps == {"createSportCategory", "updateSportCategory"}

\* the code the finished call asked for is the code of another category
CodeOfAnother ==
  \E i \in 1..Len(store.sportCategories) :
    /\ store.sportCategories[i].id # last.id
    /\ store.sportCategories[i].code = normalizeCode(draft.code)

CodesDistinctSlugs ==
  /\ \A i, j \in 1..Len(store.sportCategories) :
       i # j => store.sportCategories[i].code # store.sportCategories[j].code
  /\ \A i \in 1..Len(store.sportCategories) : IsSlug(store.sportCategories[i].code)

\* C20: from the empty catalog, after any sequence of category operations
\* no two stored categories have the same code and every stored code is a
\* non-empty slug of [a-z0-9-] without a leading, trailing or doubled
\* hyphen; a create or update with a non-blank label, and for an update the
\* id of a stored category, whose normalized code is the code of another
\* category returns 'duplicateCode'.
C20_CodesDistinctSlugs ==
  /\ CodesDistinctSlugs
  /\ (/\ last.op \in CategoryOps
      /\ Trim(draft.label) # <<>>
      /\ last.op = "updateSportCategory" => HasId(store.sportCategories, last.id)
      /\ CodeOfAnother)
       => last.error = "duplicateCode"

\* the second category, stored with the code a-1, was to take the code of
\* the first
C20_Witness ==
  /\ last.op = "updateSportCategory" /\ last.error = "duplicateCode"
  /\ Len(store.sportCategories) = 2
  /\ store.sportCategories[2].code = <<"a", "-", "1">>
  /\ store.sportCategories[2].id = last.id
  /\ Trim(draft.label) # <<>>

\* C20 as stated: every create or update whose normalized code is the code
\* of another category returns 'duplicateCode'
C20_AsStated ==
  /\ CodesDistinctSlugs
  /\ (last.op \in CategoryOps /\ CodeOfAnother) => last.error = "duplicateCode"

(***************************************************************************)
(* Properties of the package form.  A failed call leaves the catalog as it *)
(* was and a successful one changes the packages only, so the catalog the  *)
(* call has read is the stored one but for its packages.                   *)
(***************************************************************************)
PackageOps == {"createSportPackage", "updateSportPackage"}

Catalog == getStoredCatalog(store)

\* the package the successful call has written, as it is stored
Written == FindById(store.packages, last.id)

RequiredMissing(payload) ==
  \/ Trim(payload.name) = <<>> \/ Trim(payload.description) = <<>>
  \/ payload.categoryId = <<>> \/ payload.companyId = <<>>

\* the errors of the checks, in the order of the checks
CheckErrors ==
  <<"invalid", "invalidAgeRange", "invalidDuration", "invalidPayment",
    "invalidPayment", "categoryNotFound", "companyNotFound", "invalidEnrollment",
    "invalidWhatsAppAccounts", "invalidAdditionalServices", "invalidGroups">>

\* whether the draft passes the i-th check
Passes(i) ==
  CASE i = 1 -> ~RequiredMissing(draft)
    [] i = 2 -> isValidAgeRange(draft.ageMin, draft.ageMax)
    [] i = 3 -> isValidPackageDuration(draft)
    [] i = 4 -> isValidPackagePayment(draft)
    [] i = 5 -> isValidPackageEntries(draft)
    [] i = 6 -> HasId(Catalog.sportCategories, draft.categoryId)
    [] i = 7 -> HasId(Catalog.companies, draft.companyId)
    [] i = 8 -> isValidPackageEnrollment(draft, Catalog.enrollments)
    [] i = 9 -> isValidPackageWhatsAppAccounts(preparePackagePayload(draft),
                                               Catalog.whatsappAccounts)
    [] i = 10 -> isValidPackageAdditionalServices(preparePackagePayload(draft),
                                                  Catalog.additionalServices)
    [] i = 11 -> isValidPackageGroups(preparePackagePayload(draft).groups,
                                      Catalog.fields, draft.categoryId)

PassesBefore(k) == \A i \in 1..(k - 1) : Passes(i)

\* the draft has a group whose fieldId, trimmed, is the id of no field or of
\* a field of another category than the draft's
HasGroupOffCategory ==
  \E i \in 1..Len(draft.groups) :
    LET fieldId == Trim(draft.groups[i].fieldId)
    IN \/ ~HasId(Catalog.fields, fieldId)
       \/ FindById(Catalog.fields, fieldId).categoryId # draft.categoryId

\* C12: createSportPackage and updateSportPackage return 'invalidGroups' for
\* a payload that passes the checks before the groups and has a group whose
\* fieldId is the id of no field, or of a field of another category than
\* the payload's.
C12_GroupOffCategoryRejected ==
  (last.op \in PackageOps /\ PassesBefore(11) /\ HasGroupOffCategory)
    => (~last.ok /\ last.error = "invalidGroups")

\* a draft of the second category with a group on the field of the first
C12_Witness ==
  /\ last.op = "createSportPackage" /\ last.error = "invalidGroups"
  /\ draft.categoryId = Sport2
  /\ Len(draft.groups) = 1 /\ draft.groups[1].fieldId = Field1
  /\ HasId(Catalog.fields, Field1)

\* the serviceIds a list selects: trimmed, the blank ones dropped
SelectedIds(list) ==
  {Trim(list[i].serviceId) : i \in 1..Len(list)} \ {<<>>}

HasType(id, type) ==
  /\ HasId(Catalog.additionalServices, id)
  /\ FindById(Catalog.additionalServices, id).type = type

\* the draft selects a service in both lists, or in a list a service that is
\* not in the catalog or not of the type of the list
HasSelectionOffType ==
  LET fixedIds == SelectedIds(draft.additionalFixedServices)
      variableIds == SelectedIds(draft.additionalVariableServices)
  IN \/ fixedIds \cap variableIds # {}
     \/ \E id \in fixedIds : ~HasType(id, "fixed")
     \/ \E id \in variableIds : ~HasType(id, "variable")

\* C13: createSportPackage and updateSportPackage return
\* 'invalidAdditionalServices' for a payload that passes the checks before
\* the additional services and selects the same serviceId in both lists, or
\* in one list a serviceId that is not in the catalog or whose service is
\* not of the type of the list.
C13_SelectionOffTypeRejected ==
  (last.op \in PackageOps /\ PassesBefore(10) /\ HasSelectionOffType)
    => (~last.ok /\ last.error = "invalidAdditionalServices")

\* the fixed service selected in the variable list alone
C13_Witness ==
  /\ last.op = "updateSportPackage" /\ last.error = "invalidAdditionalServices"
  /\ draft.additionalFixedServices = <<>>
  /\ draft.additionalVariableServices = <<Selection(Service1, TRUE)>>
  /\ HasType(Service1, "fixed")

\* the error of the first check the draft fails, "" when it passes them all
FirstFailing ==
  IF PassesBefore(Len(CheckErrors) + 1) THEN ""
  ELSE CheckErrors[CHOOSE i \in 1..Len(CheckErrors) : ~Passes(i) /\ PassesBefore(i)]

\* C14: the error of a package create or update is that of the first check
\* the payload fails, in the order required fields, age range, duration,
\* payment, entries count, category, company, enrollment, WhatsApp accounts,
\* additional services, groups; a payload without a name, a description, a
\* categoryId or a companyId yields 'invalid' whatever else it fails; and
\* updateSportPackage yields 'notFound' only for a payload that fails no
\* check, and then exactly when the id is that of no stored package.
C14_FirstFailingCheck ==
  last.op \in PackageOps =>
    /\ FirstFailing # "" => (~last.ok /\ last.error = FirstFailing)
    /\ RequiredMissing(draft) => last.error = "invalid"
    /\ last.error = "notFound" =>
         (last.op = "updateSportPackage" /\ FirstFailing = "")
    /\ (last.op = "updateSportPackage" /\ FirstFailing = "") =>
         (last.error = "notFound" <=> ~HasId(Catalog.packages, last.id))
    /\ FirstFailing = "" => (last.ok <=> last.error = "")

\* a draft without a name that also fails the age range, the payment and
\* the lookup of the category
C14_Witness ==
  /\ last.op = "updateSportPackage" /\ last.error = "invalid"
  /\ Trim(draft.name) = <<>>
  /\ ~Passes(2) /\ ~Passes(4) /\ ~Passes(6)

\* x is an integer from lo to hi
IsIntegerIn(x, lo, hi) == x.tag = "num" /\ lo <= x.v /\ x.v <= hi

\* the price of the draft is a finite number, zero or more, and the fields of
\* its frequency are filled in
PaymentAccepted ==
  /\ draft.priceAmount.tag \in {"num", "half"}
  /\ draft.priceAmount.v >= 0
  /\ draft.recurringPaymentEnabled =>
       /\ draft.paymentFrequency = "monthly" =>
            /\ IsIntegerIn(draft.monthlyDueDay, 1, 31)
            /\ IsIntegerIn(draft.monthlyNextCycleOpenDay, 1, 31)
       /\ draft.paymentFrequency = "weekly" =>
            IsIntegerIn(draft.weeklyDueWeekday, 0, 6)

\* C15: the payment check passes exactly when priceAmount is a finite number
\* that is zero or more and, for a recurring payment, monthlyDueDay and
\* monthlyNextCycleOpenDay are integers from 1 to 31 when the frequency is
\* monthly and weeklyDueWeekday is an integer from 0 to 6 when it is weekly;
\* a payload that fails it behind the earlier checks gets 'invalidPayment',
\* and one that passes it with a good entries count does not.
C15_PaymentAcceptedExactly ==
  last.op \in PackageOps =>
    /\ isValidPackagePayment(draft) <=> PaymentAccepted
    /\ (PassesBefore(4) /\ ~PaymentAccepted) =>
         (~last.ok /\ last.error = "invalidPayment")
    /\ (PaymentAccepted /\ Passes(5)) => last.error # "invalidPayment"

\* a monthly payment without monthlyDueDay
C15_Witness ==
  /\ last.op = "createSportPackage" /\ last.error = "invalidPayment"
  /\ draft.recurringPaymentEnabled /\ draft.paymentFrequency = "monthly"
  /\ draft.priceAmount = Num(0)
  /\ draft.monthlyDueDay = Null
  /\ draft.monthlyNextCycleOpenDay = Num(1)

\* C16: the package a successful create or update has written has a
\* monthlyDueDay or a monthlyNextCycleOpenDay only if it is recurring with
\* the frequency monthly, and a weeklyDueWeekday only if it is recurring
\* with the frequency weekly, whatever the payload held in these fields.
C16_OtherFrequenciesCleared ==
  (last.op \in PackageOps /\ last.ok) =>
    /\ (Written.monthlyDueDay # Null \/ Written.monthlyNextCycleOpenDay # Null) =>
         (Written.recurringPaymentEnabled /\ Written.paymentFrequency = "monthly")
    /\ Written.weeklyDueWeekday # Null =>
         (Written.recurringPaymentEnabled /\ Written.paymentFrequency = "weekly")

\* a one-off payment sent with a due day, a cycle day and a weekday
C16_Witness ==
  /\ last.op = "updateSportPackage" /\ last.ok
  /\ ~draft.recurringPaymentEnabled
  /\ draft.monthlyDueDay = Num(1)
  /\ draft.monthlyNextCycleOpenDay = Num(1)
  /\ draft.weeklyDueWeekday = Num(0)
  /\ Written.monthlyDueDay = Null /\ Written.weeklyDueWeekday = Null

\* the most entries a package of the frequency may have, 0 for no limit
EntriesLimit(recurringPaymentEnabled, paymentFrequency) ==
  IF ~recurringPaymentEnabled THEN 0
  ELSE CASE paymentFrequency = "weekly" -> 7
         [] paymentFrequency = "monthly" -> 31
         [] paymentFrequency = "yearly" -> 365
         [] OTHER -> 0

\* entriesCount is right for a package with this payment: null for a
\* recurring daily one and for no other, else an integer from 1 to the limit
EntriesRight(entriesCount, recurringPaymentEnabled, paymentFrequency) ==
  LET limit == EntriesLimit(recurringPaymentEnabled, paymentFrequency)
  IN IF recurringPaymentEnabled /\ paymentFrequency = "daily"
     THEN entriesCount = Null
     ELSE /\ entriesCount.tag = "num"
          /\ entriesCount.v >= 1
          /\ limit # 0 => entriesCount.v <= limit

WrittenEntriesRight ==
  (last.op \in PackageOps /\ last.ok) =>
    EntriesRight(Written.entriesCount, Written.recurringPaymentEnabled,
                 Written.paymentFrequency)

\* the entriesCount of the draft as the package would hold it: none for a
\* recurring daily payment, else the count without its fraction
EntriesToWrite ==
  IF draft.recurringPaymentEnabled /\ draft.paymentFrequency = "daily" THEN Null
  ELSE IF draft.entriesCount.tag = "half"
       THEN Num(IF draft.entriesCount.v >= 0 THEN draft.entriesCount.v
                ELSE draft.entriesCount.v + 1)
  ELSE IF draft.entriesCount.tag = "num" THEN draft.entriesCount
  ELSE Null

\* C17: the package a successful create or update has written has
\* entriesCount null exactly when it is recurring with the frequency daily;
\* otherwise entriesCount is an integer of at least 1, at most 7 for
\* recurring weekly, 31 for recurring monthly, 365 for recurring yearly, and
\* without a limit when not recurring.  A payload behind the earlier checks
\* is rejected with 'invalidPayment' when its entriesCount, dropped for a
\* recurring daily payment and cut to its integer part otherwise, is not
\* right in this sense, and is not rejected for its entries when it is.
C17_EntriesByFrequency ==
  /\ WrittenEntriesRight
  /\ (last.op \in PackageOps /\ PassesBefore(5)) =>
       IF EntriesRight(EntriesToWrite, draft.recurringPaymentEnabled,
                       draft.paymentFrequency)
       THEN Passes(5) /\ (last.ok => Written.entriesCount = EntriesToWrite)
       ELSE ~last.ok /\ last.error = "invalidPayment"

\* a weekly payment with 8 entries
C17_Witness ==
  /\ last.op = "createSportPackage" /\ last.error = "invalidPayment"
  /\ draft.recurringPaymentEnabled /\ draft.paymentFrequency = "weekly"
  /\ draft.entriesCount = Num(8)
  /\ Passes(4)

\* C17 as stated: a payload whose own entriesCount is not right for its
\* payment is rejected with 'invalidPayment'
C17_AsStated ==
  /\ WrittenEntriesRight
  /\ (/\ last.op \in PackageOps /\ PassesBefore(5)
      /\ ~EntriesRight(draft.entriesCount, draft.recurringPaymentEnabled,
                       draft.paymentFrequency))
       => (~last.ok /\ last.error = "invalidPayment")

\* the variant the draft selects lacks a date or a time, or ends before it
\* starts
DurationIncomplete ==
  IF draft.durationType = "period"
  THEN \/ Trim(draft.periodStartDate) = <<>>
       \/ Trim(draft.periodEndDate) = <<>>
       \/ StrLess(Trim(draft.periodEndDate), Trim(draft.periodStartDate))
  ELSE Trim(draft.eventDate) = <<>> \/ Trim(draft.eventTime) = <<>>

\* C18: the package a successful create or update has written has one
\* duration variant filled in and the other empty: a single event has an
\* eventDate and an eventTime and no period dates; a period has a
\* periodStartDate and a periodEndDate, the first not after the second, and
\* no event date or time.  A payload behind the earlier checks whose variant
\* lacks a value or ends before it starts is rejected with 'invalidDuration'.
C18_OneDurationVariant ==
  last.op \in PackageOps =>
    /\ last.ok =>
         IF Written.durationType = "single-event"
         THEN /\ Written.eventDate # <<>> /\ Written.eventTime # <<>>
              /\ Written.periodStartDate = <<>> /\ Written.periodEndDate = <<>>
         ELSE /\ Written.durationType = "period"
              /\ Written.periodStartDate # <<>> /\ Written.periodEndDate # <<>>
              /\ ~StrLess(Written.periodEndDate, Written.periodStartDate)
              /\ Written.eventDate = <<>> /\ Written.eventTime = <<>>
    /\ (PassesBefore(3) /\ DurationIncomplete) =>
         (~last.ok /\ last.error = "invalidDuration")

\* a period sent with the date and time of an event has been written
C18_Witness ==
  /\ last.op = "updateSportPackage" /\ last.ok
  /\ draft.durationType = "period"
  /\ Trim(draft.eventDate) # <<>> /\ draft.eventTime # <<>>
  /\ Written.periodStartDate = Date("1") /\ Written.periodEndDate = Date("2")
  /\ Written.eventDate = <<>>

\* C19: the package a successful createSportPackage or updateSportPackage
\* has written, as getStoredCatalog reads it back, has a finite
\* enrollmentPrice of 0 or more, with an enrollmentId or without one.
C19_EnrollmentPriceFiniteNonNegative ==
  (last.op \in PackageOps /\ last.ok) =>
    LET price == FindById(Catalog.packages, last.id).enrollmentPrice
    IN IsFinite(price) /\ price.v >= 0

(***************************************************************************)
(* Properties of the package status.                                       *)
(***************************************************************************)
StatusOf(packages) == {<<packages[k].id, packages[k].status>> : k \in 1..Len(packages)}

\* the statuses of the stored packages across one call
StatusLeftAlone ==
  /\ \A k \in 1..Len(store.packages) :
       \A m \in 1..Len(store'.packages) :
         store'.packages[m].id = store.packages[k].id
           => store'.packages[m].status = store.packages[k].status
  /\ \A m \in 1..Len(store'.packages) :
       ~HasId(store.packages, store'.packages[m].id)
         => store'.packages[m].status = "draft"
  /\ (last'.op = "createSportPackage" /\ last'.ok)
       => /\ ~HasId(store.packages, last'.id)
          /\ FindById(store'.packages, last'.id).status = "draft"
  /\ (last'.op = "updateSportPackage" /\ last'.ok)
       => FindById(store'.packages, last'.id).status
            = FindById(store.packages, last'.id).status

\* C21: createSportPackage stores the new package with status 'draft';
\* updateSportPackage leaves the status of the package it updates as it was;
\* no call of the catalog changes the status of a stored package, and every
\* package a call adds is a draft.
C21_StatusLeftAlone ==
  [][StatusLeftAlone]_vars

\* a published package has been updated
C21_Witness ==
  /\ last.op = "updateSportPackage" /\ last.ok
  /\ FindById(store.packages, last.id).status = "published"
  /\ FindById(store.packages, last.id).whatsappAccountIds # <<>>

(***************************************************************************)
(* Properties of the normalization functions.                              *)
(***************************************************************************)
NormalizeFunctions ==
  {"normalizeCode", "normalizeIban", "normalizePhoneNumber", "normalizePackageDuration",
   "normalizePackagePayment", "normalizePackageEntries", "normalizePackageTrainers",
   "normalizePackageWhatsAppAccountIds", "normalizePackageAdditionalServices"}

\* C22: each of normalizeCode, normalizeIban, normalizePhoneNumber,
\* normalizePackageDuration, normalizePackagePayment, normalizePackageEntries,
\* normalizePackageTrainers, normalizePackageWhatsAppAccountIds and
\* normalizePackageAdditionalServices, applied to what it returned, returns
\* that value again.
C22_NormalizationIdempotent ==
  (arg # Nothing /\ arg.fn \in NormalizeFunctions /\ Len(out) = 2) => out[2] = out[1]

\* normalizeCode has changed its input, kept part of it, and been applied to
\* what it returned
C22_Witness ==
  /\ arg # Nothing /\ arg.fn = "normalizeCode"
  /\ Len(out) = 2
  /\ out[1] # arg.value
  /\ Len(out[1]) > 1

(***************************************************************************)
(* Properties of the schedule lines.                                       *)
(***************************************************************************)
\* the {weekday, time} pairs of the schedules
PairsOf(schedules) ==
  {<<schedules[k].weekday.v, schedules[k].time>> : k \in 1..Len(schedules)}

\* the times of the pairs, each once, the earlier first
TimesOf(pairs) ==
  LET times == {pair[2] : pair \in pairs}
  IN CHOOSE ordered \in [1..Cardinality(times) -> times] :
       \A i, j \in 1..Cardinality(times) : i < j => StrLess(ordered[i], ordered[j])

\* Monday (1) to Saturday (6), then Sunday (0)
WeekOrder == <<1, 2, 3, 4, 5, 6, 0>>

\* the line of a time: the days of the pairs at that time, each once, in the
\* order of the week
LineOf(pairs, time) ==
  LET days == SelectSeq(WeekOrder, LAMBDA day : <<day, time>> \in pairs)
  IN joinWithConjunction([k \in 1..Len(days) |-> weekdayLabel(Num(days[k]))],
                         Translated("utility.packages.andConjunction"))
       \o <<" ", Translated("utility.packages.atHourLabel"), " ">> \o formatHour(time)

\* C23: formatGroupSchedules returns one line per distinct time of the
\* input, the earlier time first, and the line of a time lists each weekday
\* scheduled at that time once, Monday (1) to Saturday (6) and then Sunday
\* (0); the lines are those of the set of {weekday, time} pairs, so two
\* inputs with the same set of pairs, in any order and with any duplicates,
\* give the same lines.
C23_LinesOfThePairs ==
  (arg # Nothing /\ arg.fn = "formatGroupSchedules" /\ out # Nothing) =>
    LET pairs == PairsOf(arg.value)
        times == TimesOf(pairs)
    IN /\ Len(out[1]) = Len(times)
       /\ \A i \in 1..Len(times) : out[1][i] = LineOf(pairs, times[i])

\* Sunday, Monday twice and Wednesday at one time and Monday at an earlier
\* one, entered last
C23_Witness ==
  /\ arg # Nothing /\ arg.fn = "formatGroupSchedules" /\ out # Nothing
  /\ Len(arg.value) = 3
  /\ arg.value[1].weekday = Num(0) /\ arg.value[1].time = Time
  /\ arg.value[2].weekday = Num(1) /\ arg.value[2].time = Time
  /\ arg.value[3].weekday = Num(1) /\ arg.value[3].time # Time
  /\ Len(out[1]) = 2
  /\ out[1][2][1] = "utility.packages.weekdayMonday"
  /\ out[1][2][5] = "utility.packages.weekdaySunday"

(***************************************************************************)
(* Properties of isValidIban.                                              *)
(***************************************************************************)
RECURSIVE TenTo(_)
\* 10 to the power n, modulo 97
TenTo(n) == IF n = 0 THEN 1 ELSE (TenTo(n - 1) * 10) % 97

RECURSIVE Expanded(_)
\* the decimal digits of the characters: a digit is itself, A is 10, B is 11,
\* ... Z is 35
Expanded(chars) ==
  IF chars = <<>> THEN <<>>
  ELSE (IF IsDigit(Head(chars)) THEN <<IndexOf(Digits, Head(chars)) - 1>>
        ELSE <<(IndexOf(Upper, Head(chars)) + 9) \div 10,
               (IndexOf(Upper, Head(chars)) + 9) % 10>>)
         \o Expanded(Tail(chars))

RECURSIVE WeightedSum(_)
\* the numeral of the digits modulo 97, digit by digit from its last
WeightedSum(digits) ==
  IF digits = <<>> THEN 0
  ELSE (WeightedSum(Tail(digits)) + Head(digits) * TenTo(Len(digits) - 1)) % 97

\* the value without its whitespace, in upper case
Compact(value) ==
  LET kept == SelectSeq(value, LAMBDA c : ~IsSpace(c))
  IN [k \in 1..Len(kept) |-> ToUpperChar(kept[k])]

\* the value is an IBAN: two letters and then letters and digits, as long as
\* the table has it for the country, with a numeral that is 1 modulo 97
IsIban(value) ==
  LET iban == Compact(value)
  IN /\ Len(iban) >= 3
     /\ \A k \in 1..Len(iban) :
          IF k <= 2 THEN IsUpper(iban[k]) ELSE IsUpper(iban[k]) \/ IsDigit(iban[k])
     /\ \E entry \in IBAN_LENGTHS :
          entry[1] = iban[1] \o iban[2] /\ entry[2] = Len(iban)
     /\ WeightedSum(Expanded(SubSeq(iban, 5, Len(iban)) \o SubSeq(iban, 1, 4))) = 1

\* C24: isValidIban accepts a value exactly when the value, without its
\* whitespace and in upper case, is two letters followed by letters and
\* digits, has the length the table gives for its country, and gives a
\* numeral that is 1 modulo 97 once its first four characters are moved to
\* the end and its letters are written as 10 to 35; and no value that differs
\* from an accepted one in one decimal digit is accepted.
C24_IbanAcceptedExactly ==
  (arg # Nothing /\ arg.fn = "isValidIban" /\ out # Nothing) =>
    /\ out[1] <=> IsIban(arg.value)
    /\ out[1] => \A other \in OneDigitReplaced(arg.value) : ~isValidIban(other)
    /\ (\E iban \in IbanSamples : arg.value \in OneDigitReplaced(iban)) => ~out[1]

\* an IBAN typed in lower case with blanks has been accepted
C24_Witness ==
  /\ arg # Nothing /\ arg.fn = "isValidIban" /\ out # Nothing
  /\ arg.value = SampleIban
  /\ out[1]

(***************************************************************************)
(* One call on the users.  The list under USERS_KEY is users; arg is the   *)
(* call with the list it found and out is what it returned.  ever keeps,   *)
(* for every user that has been in the list, the id with the number of the *)
(* creation that made it (0 for the users the list started with).          *)
(***************************************************************************)
EmailOf(c) == <<c, "@", "b", ".", "c">>

UserOf(id, role, c) ==
  [id |-> id, role |-> role, firstName |-> <<c>>, lastName |-> <<"t">>,
   name |-> <<c, " ", "t">>, email |-> EmailOf(c), login |-> <<c>>,
   password |-> <<"p">>, avatarUrl |-> <<>>,
   age |-> IF role = "trainer" THEN Num(30) ELSE Null,
   sector |-> IF role = "editor-admin" THEN <<"t">> ELSE <<>>,
   profession |-> IF role = "editor-admin" THEN <<"t">> ELSE <<>>,
   permissions |-> <<>>]

Roles == {ALL_ROLE_KEYS[k] : k \in DOMAIN ALL_ROLE_KEYS}

\* the roles a caller passes as the actor: each role, one that is no role,
\* and none
ActorRoles == Roles \cup {"guest", ""}

\* two users, of every pair of roles
UserStores == {<<UserOf(1, first, "a"), UserOf(2, second, "b")>> : first, second \in Roles}

PayloadOf(role, first, email, login, age) ==
  [role |-> role, firstName |-> first, lastName |-> <<"t">>, email |-> email,
   login |-> login, password |-> <<"p">>, avatarUrl |-> <<>>, age |-> age,
   sector |-> <<"t">>, profession |-> <<"t">>, permissions |-> <<>>]

\* for each role and one that is no role: a payload of a new person, one with
\* the email of the first user, one with the login of the first user, the
\* payload of the second user, and ones with no first name, a malformed email
\* and no age
UserPayloads ==
  UNION {{PayloadOf(role, <<"c">>, EmailOf("c"), <<"c">>, Num(30)),
          PayloadOf(role, <<"c">>, <<" ", "A">> \o Tail(EmailOf("a")), <<"c">>, Num(30)),
          PayloadOf(role, <<"c">>, EmailOf("c"), <<"A", " ">>, Num(30)),
          PayloadOf(role, <<"b">>, EmailOf("b"), <<"b">>, Num(30)),
          PayloadOf(role, <<" ">>, EmailOf("c"), <<"c">>, Num(30)),
          PayloadOf(role, <<"c">>, <<"c", "b">>, <<"c">>, Num(30)),
          PayloadOf(role, <<"c">>, EmailOf("c"), <<"c">>, Null)}
         : role \in Roles \cup {"guest"}}

UserIds == 1..3

NoUsersEver(list) ==
  [stored |-> {<<list[k].id, 0>> : k \in 1..Len(list)}, serial |-> 0, login |-> Nothing]

\* the call is recorded with what it returned, and the list it wrote is
\* stored
UserCall(fn, id, payload, actorRole, result) ==
  /\ arg' = [fn |-> fn, id |-> id, payload |-> payload, actorRole |-> actorRole,
             users |-> users]
  /\ out' = <<result>>
  /\ users' = result.users
  /\ ever' = IF fn = "createUser" /\ result.ok
             THEN [ever EXCEPT !.serial = @ + 1,
                               !.stored = @ \cup {<<result.user.id, ever.serial + 1>>}]
             ELSE ever
  /\ UNCHANGED <<catalogVars, session, languageSettings, currentLanguage>>

CreateUser(payload, actorRole) ==
  UserCall("createUser", 0, payload, actorRole, createUser(users, payload, actorRole))

UpdateUser(id, payload, actorRole) ==
  UserCall("updateUser", id, payload, actorRole, updateUser(users, id, payload, actorRole))

RemoveUser(id, actorRole) ==
  UserCall("removeUser", id, Nothing, actorRole, removeUser(users, id, actorRole))

InitUserCall ==
  /\ CatalogIdle
  /\ users \in UserStores
  /\ ever = NoUsersEver(users)
  /\ session = Nothing
  /\ languageSettings = Nothing
  /\ currentLanguage = Nothing
  /\ arg = Nothing
  /\ out = Nothing

NextUserCall ==
  \/ \E payload \in UserPayloads, actorRole \in ActorRoles :
       arg = Nothing /\ CreateUser(payload, actorRole)
  \/ \E id \in UserIds, payload \in UserPayloads, actorRole \in ActorRoles :
       arg = Nothing /\ UpdateUser(id, payload, actorRole)
  \/ \E id \in UserIds, actorRole \in ActorRoles :
       arg = Nothing /\ RemoveUser(id, actorRole)

SpecUserCall == InitUserCall /\ [][NextUserCall]_vars

\* the roles each actor role may create, as the rules of the project list them
MayCreate(actorRole) ==
  CASE actorRole = "super-administrator" -> Roles
    [] actorRole = "administrator" -> {"editor-admin", "trainer", "subscribers"}
    [] actorRole = "editor-admin" -> {"trainer", "subscribers"}
    [] OTHER -> {}

Called(fn) == arg # Nothing /\ arg.fn = fn /\ out # Nothing

\* C25: when an actor role is supplied, createUser succeeds only if the actor
\* may create the role of the payload (super-administrator every role,
\* administrator editor-admin, trainer and subscribers, editor-admin trainer
\* and subscribers, every other actor role none); for an otherwise valid
\* payload of a role the actor may not create it returns 'notAllowedRole', and
\* the stored users are the ones it found.
C25_CreateUserRoleRules ==
  (Called("createUser") /\ arg.actorRole # "") =>
    /\ out[1].ok => arg.payload.role \in MayCreate(arg.actorRole)
    /\ (validatePayload(arg.payload) = "" /\ arg.payload.role \notin MayCreate(arg.actorRole))
         => /\ ~out[1].ok
            /\ out[1].error = "notAllowedRole"
            /\ users = arg.users

\* an administrator has been refused an administrator that nobody's email or
\* login stands against
C25_Witness ==
  /\ Called("createUser")
  /\ arg.actorRole = "administrator"
  /\ arg.payload = PayloadOf("administrator", <<"c">>, EmailOf("c"), <<"c">>, Num(30))
  /\ out[1].error = "notAllowedRole"
  /\ users = arg.users

\* C27: when an actor role is supplied, updateUser and removeUser leave a
\* user whose stored role the actor may not create as it is, role included,
\* and (the payload of an update being valid) return 'notAllowedRole'.
C27_StoredRoleProtected ==
  (/\ Called("updateUser") \/ Called("removeUser")
   /\ arg.actorRole # ""
   /\ HasId(arg.users, arg.id)
   /\ FindById(arg.users, arg.id).role \notin MayCreate(arg.actorRole)) =>
    /\ HasId(users, arg.id)
    /\ FindById(users, arg.id) = FindById(arg.users, arg.id)
    /\ (arg.fn = "removeUser" \/ validatePayload(arg.payload) = "")
         => out[1].error = "notAllowedRole"

(***************************************************************************)
(* Calls on the users one after another, with logging in and out.          *)
(* ever.login is the user that logged in: the id with the number of the    *)
(* creation that made the user.                                            *)
(***************************************************************************)
MaxUsersCreated == 2

\* the creation that made the user now stored under the id
SerialOf(id) == MaxOf({0} \cup {made[2] : made \in {p \in ever.stored : p[1] = id}})

LoginWithEmailPassword(email, password) ==
  LET result == loginWithEmailPassword(users, email, password)
  IN /\ arg' = [fn |-> "loginWithEmailPassword", email |-> email, password |-> password,
                users |-> users]
     /\ out' = <<result>>
     /\ session' = IF result.ok THEN result.session ELSE session
     /\ ever' = IF result.ok
                THEN [ever EXCEPT !.login = <<result.session.userId,
                                              SerialOf(result.session.userId)>>]
                ELSE ever
     /\ UNCHANGED <<catalogVars, users, languageSettings, currentLanguage>>

ClearSession ==
  /\ session # Nothing
  /\ session' = Nothing
  /\ ever' = [ever EXCEPT !.login = Nothing]
  /\ arg' = [fn |-> "clearSession"]
  /\ out' = Nothing
  /\ UNCHANGED <<catalogVars, users, languageSettings, currentLanguage>>

\* emails and logins as they are typed: two of each, and the first again in
\* upper case with blanks
TypedEmails == {EmailOf("a"), <<" ", "A">> \o Tail(EmailOf("a")), EmailOf("b")}
TypedLogins == {<<"a">>, <<"A", " ">>, <<"b">>}

\* subscribers of every typed email and login, and a payload with no first
\* name
SubscriberPayloads ==
  {PayloadOf("subscribers", <<"c">>, email, login, Null) :
     email \in TypedEmails, login \in TypedLogins}
  \cup {PayloadOf("subscribers", <<" ">>, EmailOf("a"), <<"a">>, Null)}

InitUsers ==
  /\ CatalogIdle
  /\ users = <<>>
  /\ ever = NoUsersEver(users)
  /\ session = Nothing
  /\ languageSettings = Nothing
  /\ currentLanguage = Nothing
  /\ arg = Nothing
  /\ out = Nothing

NextUsers ==
  \/ \E payload \in SubscriberPayloads :
       ever.serial < MaxUsersCreated /\ CreateUser(payload, "")
  \/ \E id \in UserIds, payload \in SubscriberPayloads : UpdateUser(id, payload, "")
  \/ \E id \in UserIds : RemoveUser(id, "")
  \/ \E email \in TypedEmails : LoginWithEmailPassword(email, <<"p">>)
  \/ ClearSession

SpecUsers == InitUsers /\ [][NextUsers]_vars

\* the email or the login as it is compared: trimmed and in lower case
Canon(text) == ToLowerCase(Trim(text))

\* the users of the list, other than the one of the id, that have the email
\* or the login of the payload
SameEmail(list, id, payload) ==
  {k \in 1..Len(list) : list[k].id # id /\ Canon(list[k].email) = Canon(payload.email)}
SameLogin(list, id, payload) ==
  {k \in 1..Len(list) : list[k].id # id /\ Canon(list[k].login) = Canon(payload.login)}

\* C28: after any calls of createUser, updateUser and removeUser one after
\* another, no two stored users have the same trimmed, lower-cased email and
\* no two have the same login; a create or update that would put a second
\* user under an email or a login (the payload valid and, for an update, the
\* id stored) returns 'duplicateEmail' or 'duplicateLogin' and leaves the
\* stored users as they were.
C28_EmailsAndLoginsDistinct ==
  /\ \A i, j \in 1..Len(users) :
       i # j => /\ Canon(users[i].email) # Canon(users[j].email)
                /\ Canon(users[i].login) # Canon(users[j].login)
  /\ ((Called("createUser") \/ Called("updateUser"))
      /\ validatePayload(arg.payload) = ""
      /\ (arg.fn = "updateUser" => HasId(arg.users, arg.id))) =>
       /\ SameEmail(arg.users, arg.id, arg.payload) # {}
            => ~out[1].ok /\ out[1].error = "duplicateEmail" /\ users = arg.users
       /\ (SameEmail(arg.users, arg.id, arg.payload) = {}
           /\ SameLogin(arg.users, arg.id, arg.payload) # {})
            => ~out[1].ok /\ out[1].error = "duplicateLogin" /\ users = arg.users

\* with two users stored, an update of the second to the email of the first,
\* typed in upper case, has been refused
C28_Witness ==
  /\ Called("updateUser")
  /\ Len(arg.users) = 2
  /\ arg.id = arg.users[2].id
  /\ arg.payload.email # arg.users[1].email
  /\ Canon(arg.payload.email) = arg.users[1].email
  /\ out[1].error = "duplicateEmail"
  /\ users = arg.users

\* C29: user ids are never reused: no id is given to a second user after
\* having been the id of a user, stored now or before; so the user that
\* getSessionUser finds for the stored session is the one that logged in.
C29_UserIdsNeverReused ==
  /\ \A first, second \in ever.stored : first[1] = second[1] => first = second
  /\ (session # Nothing /\ getSessionUser(users, session) # Nothing) =>
       <<session.userId, SerialOf(session.userId)>> = ever.login

(***************************************************************************)
(* The routes of App.  arg is the component: the session it holds in its   *)
(* state, which is read from SESSION_KEY when the page loads, and the path *)
(* it is at; out is what it renders.  session is the one under             *)
(* SESSION_KEY.                                                            *)
(***************************************************************************)
AppPaths == {"/app", "/app/pacchetti"}
Paths == {"/login", "/other"} \cup AppPaths

\* <PackagesRoute>: what stands in the layout at /app/pacchetti
PackagesRoute(state, stamp, stored) ==
  IF state = Nothing \/ ~canAccessPackages(state.role) THEN "Navigate"
  ELSE IF state.role = "editor-admin" /\ ~hasSessionPermission(stored, stamp, "packages.manage")
  THEN "accessDenied"
  ELSE "PackagesPage"

Rendering(path, element, child, cleared) ==
  [path |-> path, element |-> element, child |-> child, cleared |-> cleared, error |-> ""]

\* <ProtectedRoute>, <LoginPage> and the route '*', with <Navigate> followed
\* to the element it ends at; cleared tells that clearSession was called
RECURSIVE Routes(_, _, _, _)
Routes(state, stamp, stored, path) ==
  IF path = "/login"
  THEN IF state # Nothing /\ isManagementRole(state.role)
       THEN Routes(state, stamp, stored, "/app")
       ELSE Rendering(path, "LoginPage", "", FALSE)
  ELSE IF path \in AppPaths
  THEN IF state = Nothing THEN Routes(state, stamp, stored, "/login")
       ELSE IF ~isManagementRole(state.role)
       THEN [Routes(state, Nothing, stored, "/login") EXCEPT !.cleared = TRUE]
       ELSE IF path = "/app"
       THEN Rendering(path, "ManagementLayout", "DashboardPage", FALSE)
       ELSE IF PackagesRoute(state, stamp, stored) = "Navigate"
       THEN Routes(state, stamp, stored, "/login")
       ELSE Rendering(path, "ManagementLayout", PackagesRoute(state, stamp, stored), FALSE)
  ELSE Routes(state, stamp, stored,
              IF state # Nothing /\ isManagementRole(state.role) THEN "/app" ELSE "/login")

Shows(state, path) ==
  LET shown == Routes(state, session, users, path)
  IN /\ arg' = [fn |-> "App", session |-> state, path |-> shown.path]
     /\ out' = <<shown>>
     /\ session' = IF shown.cleared THEN Nothing ELSE session
     /\ UNCHANGED <<catalogVars, users, ever, languageSettings, currentLanguage>>

\* the page is loaded at the path
App(path) == Shows(session, path)

\* a link or the address bar takes the loaded page to the path
GoTo(path) ==
  /\ arg # Nothing
  /\ Shows(arg.session, path)

\* submitLogin of LoginPage
SubmitLogin(email, password) ==
  /\ arg # Nothing
  /\ out[1].element = "LoginPage"
  /\ LET result == loginWithEmailPassword(users, email, password)
         shown == Routes(result.session, result.session, users, "/app")
     IN IF ~result.ok
        THEN /\ out' = <<[out[1] EXCEPT !.error = result.errorKey]>>
             /\ UNCHANGED <<arg, session>>
        ELSE IF ~isManagementRole(result.session.role)
        THEN /\ out' = <<[out[1] EXCEPT !.error = "publicRoleBlocked"]>>
             /\ session' = result.session
             /\ UNCHANGED arg
        ELSE /\ out' = <<shown>>
             /\ session' = result.session
             /\ arg' = [fn |-> "App", session |-> result.session, path |-> shown.path]
  /\ UNCHANGED <<catalogVars, users, ever, languageSettings, currentLanguage>>

\* handleLogout, from the layout
HandleLogout ==
  /\ arg # Nothing
  /\ out[1].element = "ManagementLayout"
  /\ LET shown == Routes(Nothing, Nothing, users, arg.path)
     IN /\ out' = <<shown>>
        /\ arg' = [fn |-> "App", session |-> Nothing, path |-> shown.path]
  /\ session' = Nothing
  /\ UNCHANGED <<catalogVars, users, ever, languageSettings, currentLanguage>>

InitRoute ==
  /\ CatalogIdle
  /\ users \in UserStores
  /\ ever = Nothing
  /\ session = Nothing
  /\ languageSettings = Nothing
  /\ currentLanguage = Nothing
  /\ arg = Nothing
  /\ out = Nothing

NextRoute ==
  \/ \E path \in Paths : App(path)
  \/ \E path \in Paths : GoTo(path)
  \/ \E email \in {EmailOf("a"), EmailOf("b"), EmailOf("c")}, password \in {<<"p">>, <<"q">>} :
       SubmitLogin(email, password)
  \/ HandleLogout

SpecRoute == InitRoute /\ [][NextRoute]_vars

\* the roles the project notes give the dashboard to
DashboardRoles == {"super-administrator", "administrator", "editor-admin"}

\* C26: the management layout is rendered only for a session whose role is
\* super-administrator, administrator or editor-admin; with a session of any
\* other role a path under /app ends at /login.
C26_DashboardForThreeRoles ==
  (arg # Nothing /\ out # Nothing /\ out[1].element = "ManagementLayout") =>
    arg.session # Nothing /\ arg.session.role \in DashboardRoles

(***************************************************************************)
(* Language settings.  languageSettings is the record under                *)
(* LANGUAGE_SETTINGS_KEY, Nothing when the key is not set; currentLanguage *)
(* is the text under CURRENT_LANGUAGE_KEY as a list of at most one code,   *)
(* empty when the key is not set.                                          *)
(***************************************************************************)
SUPPORTED_LANGUAGES == <<"it", "en", "es", "fr", "de">>

\* mock-locales.json: Italian first, every supported language active
defaults == [primaryLanguage |-> "it", activeLanguages |-> <<"it", "en", "de", "es", "fr">>]

isLanguageCode(value) == Includes(SUPPORTED_LANGUAGES, value)

sanitizeActiveLanguages(values) ==
  LET filtered == Filter(values, isLanguageCode)
      unique == Dedupe(filtered)
  IN IF Len(unique) > 0 THEN unique ELSE <<defaults.primaryLanguage>>

getLanguageSettings(raw) ==
  IF raw = Nothing THEN defaults
  ELSE LET activeLanguages == sanitizeActiveLanguages(raw.activeLanguages)
           primaryLanguage == IF isLanguageCode(raw.primaryLanguage)
                              THEN raw.primaryLanguage
                              ELSE defaults.primaryLanguage
       IN [primaryLanguage |-> primaryLanguage,
           activeLanguages |-> IF Includes(activeLanguages, primaryLanguage)
                               THEN activeLanguages
                               ELSE <<primaryLanguage>> \o activeLanguages]

saveLanguageSettings(settings) ==
  LET activeLanguages == sanitizeActiveLanguages(settings.activeLanguages)
  IN [primaryLanguage |-> IF Includes(activeLanguages, settings.primaryLanguage)
                          THEN settings.primaryLanguage
                          ELSE activeLanguages[1],
      activeLanguages |-> activeLanguages]

\* getCurrentLanguage returning the stored language whenever it is supported
getCurrentLanguageAsStored(raw, value) ==
  IF value # <<>> /\ isLanguageCode(value[1])
  THEN value[1]
  ELSE getLanguageSettings(raw).primaryLanguage

getCurrentLanguage(raw, value) ==
  LET settings == getLanguageSettings(raw)
  IN IF /\ value # <<>>
        /\ value[1] # ""
        /\ isLanguageCode(value[1])
        /\ Includes(settings.activeLanguages, value[1])
     THEN value[1]
     ELSE settings.primaryLanguage

setCurrentLanguage(raw, language) ==
  LET settings == getLanguageSettings(raw)
  IN IF Includes(settings.activeLanguages, language) THEN language
     ELSE settings.primaryLanguage

MaxLanguages == 2

\* the codes that are passed: three supported ones, one that is not, and the
\* empty text
TypedCodes == {"it", "en", "de", "xx", ""}

RECURSIVE ListsOf(_, _)
ListsOf(S, n) ==
  IF n = 0 THEN {<<>>}
  ELSE ListsOf(S, n - 1) \cup {Append(list, x) : list \in ListsOf(S, n - 1), x \in S}

SaveLanguageSettings(settings) ==
  LET next == saveLanguageSettings(settings)
  IN /\ languageSettings' = next
     /\ arg' = [fn |-> "saveLanguageSettings", value |-> settings]
     /\ out' = <<next>>
     /\ UNCHANGED <<catalogVars, users, session, ever, currentLanguage>>

SetCurrentLanguage(language) ==
  LET next == setCurrentLanguage(languageSettings, language)
  IN /\ currentLanguage' = <<next>>
     /\ arg' = [fn |-> "setCurrentLanguage", value |-> language]
     /\ out' = <<next>>
     /\ UNCHANGED <<catalogVars, users, session, ever, languageSettings>>

InitLanguage ==
  /\ CatalogIdle
  /\ users = Nothing
  /\ session = Nothing
  /\ ever = Nothing
  /\ languageSettings = Nothing
  /\ currentLanguage = <<>>
  /\ arg = Nothing
  /\ out = Nothing

NextLanguage ==
  \/ \E primaryLanguage \in TypedCodes, activeLanguages \in ListsOf(TypedCodes, MaxLanguages) :
       SaveLanguageSettings([primaryLanguage |-> primaryLanguage,
                             activeLanguages |-> activeLanguages])
  \/ \E language \in TypedCodes : SetCurrentLanguage(language)

SpecLanguage == InitLanguage /\ [][NextLanguage]_vars

\* C30: after any calls of saveLanguageSettings and setCurrentLanguage,
\* getLanguageSettings returns a list of active languages that is not empty,
\* has no code twice, has supported codes only and has the primary language
\* in it, and getCurrentLanguage returns a language of that list.
C30_LanguagesWellFormed ==
  LET settings == getLanguageSettings(languageSettings)
      active == settings.activeLanguages
  IN /\ Len(active) > 0
     /\ \A i, j \in 1..Len(active) : active[i] = active[j] => i = j
     /\ \A i \in 1..Len(active) : \E k \in 1..5 : SUPPORTED_LANGUAGES[k] = active[i]
     /\ \E i \in 1..Len(active) : active[i] = settings.primaryLanguage
     /\ \E i \in 1..Len(active) :
          active[i] = getCurrentLanguage(languageSettings, currentLanguage)

\* the current language was set to English and English has then been taken
\* out of the active languages: the current language is the primary one
C30_Witness ==
  /\ currentLanguage = <<"en">>
  /\ arg # Nothing
  /\ arg.fn = "saveLanguageSettings"
  /\ languageSettings.activeLanguages = <<"de">>
  /\ getCurrentLanguage(languageSettings, currentLanguage) = "de"

====
